---- MODULE Spec2Model ----
(***************************************************************************)
(* A model of f5_simulator.py: the in-memory stores POOLS, POOL_MEMBERS,   *)
(* VIRTUALS and ACTIVE_TOKENS, the authentication gate, the identifier     *)
(* resolver parse_f5_id and the request handlers.                          *)
(*                                                                         *)
(* A Python str that the code takes apart (identifiers, names, paths) is a *)
(* sequence of one-character strings; a str that is only compared          *)
(* (usernames, passwords, token values, field names) is a TLA+ string.    *)
(* A dict is a function whose DOMAIN is the set of its keys.               *)
(***************************************************************************)
EXTENDS Integers, Sequences, FiniteSets, TLC

(***************************************************************************)
(* Bounds of the model.                                                    *)
(***************************************************************************)
MaxLogins == 2
MaxBigTicks == 1
MaxSmallTicks == 1
MaxInFlight == 2
MaxIdLen == 5
MaxNameLen == 2

(***************************************************************************)
(* Python values.                                                          *)
(***************************************************************************)
\* None where a character-sequence value is expected (dict.get of a missing
\* key, JSON null): a one-element sequence no character sequence equals.
None == <<"<None>">>
\* None where a plain string is expected (a missing header or login field).
NoneS == "<None>"
\* bool(v) for a str-or-None value.
Truthy(v) == v # None /\ v # <<>>
TruthyS(v) == v # NoneS /\ v # ""
\* The empty dict; also what a missing or unparsable JSON body counts as in
\* `if not body_json`.
EmptyDict == <<>>
\* dict.get(k, default)
Get(d, k, default) == IF k \in DOMAIN d THEN d[k] ELSE default
\* The dict d without key k.
Without(d, k) == [x \in DOMAIN d \ {k} |-> d[x]]
\* The dict d with d[k] = v.
With(d, k, v) == [x \in DOMAIN d \cup {k} |-> IF x = k THEN v ELSE d[x]]

RECURSIVE lstrip(_, _)
lstrip(s, c) == IF s # <<>> /\ Head(s) = c THEN lstrip(Tail(s), c) ELSE s
RECURSIVE rstrip(_, _)
rstrip(s, c) ==
  IF s # <<>> /\ s[Len(s)] = c THEN rstrip(SubSeq(s, 1, Len(s) - 1), c) ELSE s
\* str.strip(c) for a one-character c
strip(s, c) == rstrip(lstrip(s, c), c)
\* str.split(c): the segments between the occurrences of c, empty ones kept
RECURSIVE split(_, _)
split(s, c) ==
  IF \E i \in 1..Len(s) : s[i] = c
  THEN LET i == CHOOSE k \in 1..Len(s) : s[k] = c /\ \A j \in 1..(k - 1) : s[j] # c
       IN <<SubSeq(s, 1, i - 1)>> \o split(SubSeq(s, i + 1, Len(s)), c)
  ELSE <<s>>
startswith(s, c) == s # <<>> /\ Head(s) = c
contains(s, c) == \E i \in 1..Len(s) : s[i] = c

Common == <<"C", "o", "m", "m", "o", "n">>

(***************************************************************************)
(* The identifier resolver.                                                *)
(***************************************************************************)
\* Variant: without the slash rule.
parse_f5_id_tilde_only(id_raw) ==
  LET tparts == split(strip(id_raw, "~"), "~")
  IN IF startswith(id_raw, "~") /\ Len(tparts) >= 2
     THEN <<tparts[1], tparts[2]>>
     ELSE <<Common, id_raw>>

\* Variant: the slash rule tried before the tilde rule.
parse_f5_id_slash_first(id_raw) ==
  LET tparts == split(strip(id_raw, "~"), "~")
      sparts == split(strip(id_raw, "/"), "/")
  IN IF contains(id_raw, "/") /\ Len(sparts) >= 2
     THEN <<sparts[1], sparts[2]>>
     ELSE IF startswith(id_raw, "~") /\ Len(tparts) >= 2
          THEN <<tparts[1], tparts[2]>>
          ELSE <<Common, id_raw>>

parse_f5_id(id_raw) ==
  LET tparts == split(strip(id_raw, "~"), "~")
      sparts == split(strip(id_raw, "/"), "/")
  IN IF startswith(id_raw, "~") /\ Len(tparts) >= 2
     THEN <<tparts[1], tparts[2]>>
     ELSE IF contains(id_raw, "/") /\ Len(sparts) >= 2
          THEN <<sparts[1], sparts[2]>>
          ELSE <<Common, id_raw>>

(***************************************************************************)
(* Configuration and constants of the program.                             *)
(***************************************************************************)
DEFAULT_USERNAME == "admin"
DEFAULT_PASSWORD == "f5password"
\* expiration_micros = current_micros + (1200 * 1000000)
TokenLifetimeSeconds == 1200
MicrosPerSecond == 1000000
TokenLifetimeMicros == TokenLifetimeSeconds * MicrosPerSecond
\* TLC's integers have 32 bits, too few for microseconds since the epoch: the
\* model samples the clocks at whole seconds, and a clock reading or stored
\* timestamp t stands for t * ClockUnit microseconds.
ClockUnit == MicrosPerSecond
TokenLifetime == TokenLifetimeMicros \div ClockUnit
\* "timeout": 1200 in the login response
LoginTimeoutField == 1200
\* The n-th value of str(uuid.uuid4()).replace('-', '').upper()[:26]: values
\* the generator has not returned before.
TokenPool == <<"T1", "T2", "T3", "T4">>
uuid4(n) == TokenPool[n]
\* The local time zone's offset from UTC in seconds, fixed by the process's
\* environment: datetime.utcnow() is a naive datetime and .timestamp() reads
\* a naive datetime as local time.
UtcOffsets == {-3600, 0, 3600}

VARIABLES
  POOLS,          \* (partition, name) -> pool dict
  POOL_MEMBERS,   \* (partition, poolname) -> (member name -> member dict)
  VIRTUALS,       \* (partition, name) -> virtual dict
  ACTIVE_TOKENS,  \* token -> [username, expiration, created]
  now,            \* int(time.time() * 1000000), in ClockUnit
  utcOffset,      \* the local zone's UTC offset, seconds
  uuidDrawn,      \* how many token values uuid4 has produced
  issuedAt,       \* history: token value returned by a 200 login -> the
                  \* time.time() reading at that login
  last,           \* the last response sent
  inflight,       \* the requests being handled at once: slot -> the
                  \* request, the line it has reached, its response
  call            \* a function of the program applied to an argument:
                  \* [fn, arg, ret]

vars == <<POOLS, POOL_MEMBERS, VIRTUALS, ACTIVE_TOKENS, now, utcOffset,
          uuidDrawn, issuedAt, last, inflight, call>>
stores == <<POOLS, POOL_MEMBERS, VIRTUALS>>
clock == <<now, utcOffset>>

(***************************************************************************)
(* Requests' authentication input: the X-F5-Auth-Token header (NoneS when  *)
(* absent) and the Authorization: Basic header (hasBasic).                 *)
(***************************************************************************)
Auth(token, hasBasic, username, password) ==
  [token |-> token, hasBasic |-> hasBasic, username |-> username,
   password |-> password]
NoBasic(token) == Auth(token, FALSE, "", "")
Basic(token, u, p) == Auth(token, TRUE, u, p)

\* An outcome of the gate: ok with the user, or the HTTPException raised.
Pass(user, tokens) ==
  [ok |-> TRUE, status |-> 200, detail |-> "", www |-> "", user |-> user,
   tokens |-> tokens]
Raise401(detail, tokens) ==
  [ok |-> FALSE, status |-> 401, detail |-> detail, www |-> "Basic",
   user |-> NoneS, tokens |-> tokens]

\* security = HTTPBasic(): with auto_error left at its default the dependency
\* raises 401 itself when the request has no Authorization: Basic header.
HTTPBasicMissing(auth) == ~auth.hasBasic

\* Variant: `or` where the code has `and` (one matching field is enough).
authenticate_user_either(auth) ==
  IF ~(auth.username = DEFAULT_USERNAME \/ auth.password = DEFAULT_PASSWORD)
  THEN Raise401("Invalid credentials", ACTIVE_TOKENS)
  ELSE Pass(auth.username, ACTIVE_TOKENS)

authenticate_user(auth) ==
  IF ~(auth.username = DEFAULT_USERNAME /\ auth.password = DEFAULT_PASSWORD)
  THEN Raise401("Invalid credentials", ACTIVE_TOKENS)
  ELSE Pass(auth.username, ACTIVE_TOKENS)

\* current_micros > token_info["expiration"]
Expired(token_info, current_micros) == current_micros > token_info.expiration

\* Variant: a token that is used lives TokenLifetime from its last use.
authenticate_user_or_token_sliding(auth) ==
  IF TruthyS(auth.token)
  THEN IF auth.token \in DOMAIN ACTIVE_TOKENS
       THEN IF Expired(ACTIVE_TOKENS[auth.token], now)
            THEN Raise401("Token expired", Without(ACTIVE_TOKENS, auth.token))
            ELSE Pass(ACTIVE_TOKENS[auth.token].username,
                      With(ACTIVE_TOKENS, auth.token,
                           [ACTIVE_TOKENS[auth.token] EXCEPT
                              !.expiration = now + TokenLifetime]))
       ELSE Raise401("Invalid token", ACTIVE_TOKENS)
  ELSE authenticate_user(auth)

authenticate_user_or_token(auth) ==
  IF TruthyS(auth.token)
  THEN IF auth.token \in DOMAIN ACTIVE_TOKENS
       THEN IF Expired(ACTIVE_TOKENS[auth.token], now)
            THEN Raise401("Token expired", Without(ACTIVE_TOKENS, auth.token))
            ELSE Pass(ACTIVE_TOKENS[auth.token].username, ACTIVE_TOKENS)
       ELSE Raise401("Invalid token", ACTIVE_TOKENS)
  ELSE authenticate_user(auth)

\* Depends(authenticate_user_or_token): its own dependency, Depends(security),
\* is solved first.
Gate(auth) ==
  IF HTTPBasicMissing(auth)
  THEN Raise401("Not authenticated", ACTIVE_TOKENS)
  ELSE authenticate_user_or_token(auth)

(***************************************************************************)
(* Responses.                                                              *)
(***************************************************************************)
\* last: the last request's handler and authentication headers, and the
\* response to it.
Reply(op, auth, status, detail, user, body) ==
  [op |-> op, auth |-> auth, status |-> status, detail |-> detail, www |-> "",
   user |-> user, body |-> body]
Denied(op, auth, g) ==
  [op |-> op, auth |-> auth, status |-> g.status, detail |-> g.detail,
   www |-> g.www, user |-> NoneS, body |-> EmptyDict]
\* The unprotected endpoints read no authentication header.
Unread == NoBasic(NoneS)

(***************************************************************************)
(* POST /mgmt/shared/authn/login                                           *)
(***************************************************************************)
\* int(datetime.utcnow().timestamp() * 1000000)
UtcNowTimestampMicros == now - utcOffset * (MicrosPerSecond \div ClockUnit)

\* Variant: the password is not compared.
LoginAcceptsAnyPassword(username, password) == username = DEFAULT_USERNAME

LoginAccepts(username, password) ==
  username = DEFAULT_USERNAME /\ password = DEFAULT_PASSWORD

\* Variant: the lifetime added in milliseconds, 1200 * 1000.
ExpirationOfMillis(current_micros) ==
  current_micros + (TokenLifetimeSeconds * 1000) \div ClockUnit

ExpirationOf(current_micros) == current_micros + TokenLifetime

login(body_json) ==
  LET username == Get(body_json, "username", NoneS)
      password == Get(body_json, "password", NoneS)
      token_uuid == uuid4(uuidDrawn + 1)
      current_micros == UtcNowTimestampMicros
      expiration_micros == ExpirationOf(current_micros)
  IN IF body_json = EmptyDict
     THEN /\ last' = Reply("login", Unread, 400, "empty body", NoneS, EmptyDict)
          /\ UNCHANGED <<stores, ACTIVE_TOKENS, clock, uuidDrawn, issuedAt,
                         inflight, call>>
     ELSE IF LoginAccepts(username, password)
     THEN /\ uuidDrawn < MaxLogins
          /\ uuidDrawn' = uuidDrawn + 1
          /\ ACTIVE_TOKENS' =
               With(ACTIVE_TOKENS, token_uuid,
                    [username |-> username, expiration |-> expiration_micros,
                     created |-> current_micros])
          /\ issuedAt' = With(issuedAt, token_uuid, now)
          /\ last' = Reply("login", Unread, 200, "", username,
                           [token |-> token_uuid, userName |-> username,
                            timeout |-> LoginTimeoutField,
                            lastUpdateMicros |-> current_micros,
                            expirationMicros |-> expiration_micros])
          /\ UNCHANGED <<stores, clock, inflight, call>>
     ELSE /\ last' = Reply("login", Unread, 401, "Authentication failed",
                          NoneS, EmptyDict)
          /\ UNCHANGED <<stores, ACTIVE_TOKENS, clock, uuidDrawn, issuedAt,
                         inflight, call>>

(***************************************************************************)
(* GET /mgmt/shared/authz/tokens/{token_id}                                *)
(***************************************************************************)
get_token_info(token_id) ==
  /\ IF token_id \in DOMAIN ACTIVE_TOKENS
     THEN IF Expired(ACTIVE_TOKENS[token_id], now)
          THEN /\ ACTIVE_TOKENS' = Without(ACTIVE_TOKENS, token_id)
               /\ last' = Reply("get_token_info", Unread, 404,
                                "Token not found or expired", NoneS, EmptyDict)
          ELSE /\ ACTIVE_TOKENS' = ACTIVE_TOKENS
               /\ last' = Reply("get_token_info", Unread, 200, "", NoneS,
                                [token |-> token_id,
                                 userName |-> ACTIVE_TOKENS[token_id].username,
                                 timeout |-> LoginTimeoutField,
                                 lastUpdateMicros |-> ACTIVE_TOKENS[token_id].created,
                                 expirationMicros |-> ACTIVE_TOKENS[token_id].expiration])
     ELSE /\ ACTIVE_TOKENS' = ACTIVE_TOKENS
          /\ last' = Reply("get_token_info", Unread, 404, "Token not found",
                           NoneS, EmptyDict)
  /\ UNCHANGED <<stores, clock, uuidDrawn, issuedAt, inflight, call>>

(***************************************************************************)
(* The clock: time.time() advances between requests.                       *)
(***************************************************************************)
Tick(d) ==
  /\ \/ d = 1 /\ now % TokenLifetime < MaxSmallTicks
     \/ d = TokenLifetime /\ now \div TokenLifetime < MaxBigTicks
  /\ now' = now + d
  /\ UNCHANGED <<stores, ACTIVE_TOKENS, utcOffset, uuidDrawn, issuedAt, last,
                 inflight, call>>

(***************************************************************************)
(* A protected handler: the gate, then the handler's effect h, a record    *)
(* [status, detail, body, pools, members, virtuals].                       *)
(***************************************************************************)
Protected(op, auth, h) ==
  LET g == Gate(auth)
  IN /\ ACTIVE_TOKENS' = g.tokens
     /\ IF g.ok
        THEN /\ last' = Reply(op, auth, h.status, h.detail, g.user, h.body)
             /\ POOLS' = h.pools
             /\ POOL_MEMBERS' = h.members
             /\ VIRTUALS' = h.virtuals
        ELSE /\ last' = Denied(op, auth, g)
             /\ UNCHANGED stores
     /\ UNCHANGED <<clock, uuidDrawn, issuedAt, inflight, call>>

\* A handler's outcome that leaves the stores alone.
Result(status, detail, body) ==
  [status |-> status, detail |-> detail, body |-> body, pools |-> POOLS,
   members |-> POOL_MEMBERS, virtuals |-> VIRTUALS]

\* GET /mgmt/tm/sys and GET /mgmt/tm/sys/global-settings: fixed documents.
get_sys_info(auth) ==
  Protected("get_sys_info", auth,
            Result(200, "", [kind |-> "tm:sys:collectionstate"]))
get_global_settings(auth) ==
  Protected("get_global_settings", auth,
            Result(200, "", [kind |-> "tm:sys:global-settings:globalsettingsstate"]))

(***************************************************************************)
(* Pools.  A JSON string value is a character sequence; a JSON number or   *)
(* boolean the code only stores is the one-element sequence <<"#n">>.      *)
(***************************************************************************)
Num0 == <<"#0">>
Num1 == <<"#1">>
BoolTrue == <<"#True">>
\* a or b or c
Or3(a, b, c) == IF Truthy(a) THEN a ELSE IF Truthy(b) THEN b ELSE c
\* f"{v}" of a str-or-None value
Num80 == <<"#80">>
\* str(v) in an f-string: None, a number or a boolean is written in digits and
\* letters, a string as it is.
Str(v) ==
  CASE v = None -> <<"N", "o", "n", "e">>
    [] v = Num0 -> <<"0">>
    [] v = Num1 -> <<"1">>
    [] v = Num80 -> <<"8", "0">>
    [] v = BoolTrue -> <<"T", "r", "u", "e">>
    [] OTHER -> v
LastOf(parts) == parts[Len(parts)]
KeyId(partition, name) == <<"~">> \o Str(partition) \o <<"~">> \o Str(name)
PoolLink(partition, name) == <<"/mgmt/tm/ltm/pool/">> \o KeyId(partition, name)
Failure(status, detail) == Result(status, detail, EmptyDict)

\* GET /mgmt/tm/ltm/pool
list_pools_h ==
  Result(200, "",
         {With(With(POOLS[k], "tmPartition", Get(POOLS[k], "tmPartition", k[1])),
               "name", k[2]) : k \in DOMAIN POOLS})

\* create_pool, lines 410-419: the name the body gives ("name" wins, then the
\* last segment of "fullPath", then whatever the first assignment produced).
\* A fullPath that is JSON null has no .strip: the handler raises.
PoolNameRaises(body_json) ==
  "name" \notin DOMAIN body_json /\ "fullPath" \in DOMAIN body_json
  /\ body_json["fullPath"] = None
PoolNameOf(body_json) ==
  IF "name" \in DOMAIN body_json THEN body_json["name"]
  ELSE IF "fullPath" \in DOMAIN body_json
       THEN LastOf(split(strip(body_json["fullPath"], "/"), "/"))
       ELSE Or3(Get(body_json, "name", None), Get(body_json, "fullPath", None),
                Get(body_json, "partition", None))
\* Variant: partition = body_json.get("tmPartition") or "Common"
PartitionOfTmOnly(body_json) ==
  Or3(Get(body_json, "tmPartition", None), None, Common)

\* line 422
PartitionOf(body_json) ==
  Or3(Get(body_json, "tmPartition", None), Get(body_json, "partition", None), Common)

PoolRecord(body_json, partition, name) ==
  [name |-> name,
   tmPartition |-> partition,
   description |-> Get(body_json, "description", <<>>),
   loadBalancingMode |->
     Get(body_json, "loadBalancingMode",
         Get(body_json, "lb_method", <<"round-robin">>)),
   minUpMembers |->
     Get(body_json, "minUpMembers", Get(body_json, "min_up_members", Num0)),
   minUpMembersAction |->
     Get(body_json, "minUpMembersAction",
         Get(body_json, "min_up_members_action", <<"failover">>)),
   minUpMembersChecking |->
     Get(body_json, "minUpMembersChecking",
         Get(body_json, "min_up_members_checking", <<"disabled">>)),
   monitor |->
     Or3(Get(body_json, "monitor", None), Get(body_json, "monitor_type", None),
         Get(body_json, "monitor_type", <<"none">>)),
   membersReference |-> [link |-> PoolLink(partition, name) \o <<"/members">>],
   selfLink |-> PoolLink(partition, name)]

\* Variant: POOL_MEMBERS[key] = {}
MembersReset(members, key) == With(members, key, EmptyDict)

\* Variant: create_pool without the setdefault.
MembersNotSet(members, key) == members

\* POOL_MEMBERS.setdefault(key, {})
MembersSetDefault(members, key) ==
  IF key \in DOMAIN members THEN members ELSE With(members, key, EmptyDict)

\* Variant: POOLS[key] = {**POOLS.get(key, {}), **pool} (the fields of the
\* record in place that the new record does not have are kept).
create_pool_keeping_h(body_json) ==
  IF body_json = EmptyDict THEN Failure(400, "empty body")
  ELSE IF PoolNameRaises(body_json) THEN Failure(500, "Internal server error")
  ELSE IF ~Truthy(PoolNameOf(body_json)) THEN Failure(400, "missing name")
  ELSE LET name == PoolNameOf(body_json)
           partition == PartitionOf(body_json)
           key == <<partition, name>>
           fresh == PoolRecord(body_json, partition, name)
           old == Get(POOLS, key, EmptyDict)
           pool == [f \in DOMAIN old \cup DOMAIN fresh |->
                      IF f \in DOMAIN fresh THEN fresh[f] ELSE old[f]]
       IN [status |-> 201, detail |-> "", body |-> pool,
           pools |-> With(POOLS, key, pool),
           members |-> MembersSetDefault(POOL_MEMBERS, key),
           virtuals |-> VIRTUALS]

\* POST /mgmt/tm/ltm/pool
create_pool_h(body_json) ==
  IF body_json = EmptyDict THEN Failure(400, "empty body")
  ELSE IF PoolNameRaises(body_json) THEN Failure(500, "Internal server error")
  ELSE IF ~Truthy(PoolNameOf(body_json)) THEN Failure(400, "missing name")
  ELSE LET name == PoolNameOf(body_json)
           partition == PartitionOf(body_json)
           key == <<partition, name>>
           pool == PoolRecord(body_json, partition, name)
       IN [status |-> 201, detail |-> "", body |-> pool,
           pools |-> With(POOLS, key, pool),
           members |-> MembersSetDefault(POOL_MEMBERS, key),
           virtuals |-> VIRTUALS]

\* GET /mgmt/tm/ltm/pool/{resource_id}
get_pool_h(resource_id) ==
  LET key == parse_f5_id(resource_id)
  IN IF key \notin DOMAIN POOLS THEN Failure(404, "pool not found")
     ELSE Result(200, "", POOLS[key])

\* Variant: pool[k] = v for every k (no mapping to the canonical names).
PoolPatchFieldVerbatim(k) == k

\* update_pool, lines 464-471: the field a patch key is stored under.
PoolPatchField(k) ==
  IF k \in {"loadBalancingMode", "lb_method"} THEN "loadBalancingMode"
  ELSE IF k \in {"minUpMembers", "min_up_members"} THEN "minUpMembers"
  ELSE IF k \in {"monitor", "monitor_type"} THEN "monitor"
  ELSE k
\* for k, v in body_json.items(): the items in the body's order, a sequence
\* of <<k, v>>.
RECURSIVE MergePoolPatch(_, _)
MergePoolPatch(pool, items) ==
  IF items = <<>> THEN pool
  ELSE MergePoolPatch(With(pool, PoolPatchField(Head(items)[1]), Head(items)[2]),
                      Tail(items))

\* Variant: the body replaces the record (the patch is applied to a record of
\* defaults, not to the stored one).
update_pool_replacing_h(resource_id, body_items) ==
  LET key == parse_f5_id(resource_id)
  IN IF key \notin DOMAIN POOLS THEN Failure(404, "pool not found")
     ELSE LET pool == MergePoolPatch(PoolRecord(EmptyDict, key[1], key[2]),
                                     body_items)
          IN [status |-> 200, detail |-> "", body |-> pool,
              pools |-> With(POOLS, key, pool), members |-> POOL_MEMBERS,
              virtuals |-> VIRTUALS]

\* PUT/PATCH /mgmt/tm/ltm/pool/{resource_id}
update_pool_h(resource_id, body_items) ==
  LET key == parse_f5_id(resource_id)
  IN IF key \notin DOMAIN POOLS THEN Failure(404, "pool not found")
     ELSE LET pool == MergePoolPatch(POOLS[key], body_items)
          IN [status |-> 200, detail |-> "", body |-> pool,
              pools |-> With(POOLS, key, pool), members |-> POOL_MEMBERS,
              virtuals |-> VIRTUALS]

\* Variant: every pool of that name goes, whatever its partition.
PoolsAfterDeleteByName(key) ==
  [k \in {x \in DOMAIN POOLS : x[2] # key[2]} |-> POOLS[k]]
\* del POOLS[key]; POOL_MEMBERS.pop(key, None)
PoolsAfterDelete(key) == Without(POOLS, key)
\* Variant: the member collection is left in place.
MembersKeptAfterDelete(key) == POOL_MEMBERS
MembersAfterDelete(key) == Without(POOL_MEMBERS, key)

\* Variant: the virtual servers that refer to the pool are deleted with it.
delete_pool_cascading_h(resource_id) ==
  LET key == parse_f5_id(resource_id)
  IN IF key \in DOMAIN POOLS
     THEN [status |-> 200, detail |-> "", body |-> [message |-> "deleted"],
           pools |-> PoolsAfterDelete(key), members |-> MembersAfterDelete(key),
           virtuals |-> [k \in {x \in DOMAIN VIRTUALS : VIRTUALS[x].pool # key[2]}
                           |-> VIRTUALS[k]]]
     ELSE Failure(404, "pool not found")

\* DELETE /mgmt/tm/ltm/pool/{resource_id}
delete_pool_h(resource_id) ==
  LET key == parse_f5_id(resource_id)
  IN IF key \in DOMAIN POOLS
     THEN [status |-> 200, detail |-> "", body |-> [message |-> "deleted"],
           pools |-> PoolsAfterDelete(key), members |-> MembersAfterDelete(key),
           virtuals |-> VIRTUALS]
     ELSE Failure(404, "pool not found")

(***************************************************************************)
(* Pool members.                                                           *)
(***************************************************************************)
\* POOL_MEMBERS.get(key, {})
MembersOf(key) == Get(POOL_MEMBERS, key, EmptyDict)
\* Variant: the body's keys are mapped to the canonical names of update_pool.
MergeNormalizing(d, body_json) ==
  [x \in DOMAIN d \cup {PoolPatchField(k) : k \in DOMAIN body_json} |->
     IF \E k \in DOMAIN body_json : PoolPatchField(k) = x
     THEN body_json[CHOOSE k \in DOMAIN body_json : PoolPatchField(k) = x]
     ELSE d[x]]
\* for k, v in body_json.items(): d[k] = v
Merge(d, body_json) ==
  [x \in DOMAIN d \cup DOMAIN body_json |->
     IF x \in DOMAIN body_json THEN body_json[x] ELSE d[x]]

\* GET /mgmt/tm/ltm/pool/{resource_id}/members
list_pool_members_h(resource_id) ==
  LET key == parse_f5_id(resource_id)
  IN IF key \notin DOMAIN POOLS THEN Failure(404, "pool not found")
     ELSE Result(200, "", {MembersOf(key)[m] : m \in DOMAIN MembersOf(key)})

\* line 508
\* Variant: the address is looked at before the name.
MemberNameAddressFirst(body_json, poolname) ==
  Or3(Get(body_json, "address", None), Get(body_json, "name", None),
      poolname \o <<":">> \o Str(Get(body_json, "port", <<"0">>)))

MemberNameOf(body_json, poolname) ==
  Or3(Get(body_json, "name", None), Get(body_json, "address", None),
      poolname \o <<":">> \o Str(Get(body_json, "port", <<"0">>)))

MemberRecord(body_json, partition, poolname, member_name) ==
  [name |-> member_name,
   address |-> Get(body_json, "address", None),
   port |-> Get(body_json, "port", None),
   description |-> Get(body_json, "description", <<>>),
   session |-> Get(body_json, "session", <<"user-enabled">>),
   ratio |-> Get(body_json, "ratio", Num1),
   state |-> Get(body_json, "state", <<"user-up">>),
   selfLink |-> PoolLink(partition, poolname) \o <<"/members/">>
                \o KeyId(partition, member_name)]

\* POST /mgmt/tm/ltm/pool/{resource_id}/members
create_pool_member_h(resource_id, body_json) ==
  LET key == parse_f5_id(resource_id)
      member_name == MemberNameOf(body_json, key[2])
      member == MemberRecord(body_json, key[1], key[2], member_name)
  IN IF key \notin DOMAIN POOLS THEN Failure(404, "pool not found")
     ELSE IF body_json = EmptyDict THEN Failure(400, "empty body")
     ELSE [status |-> 201, detail |-> "", body |-> member, pools |-> POOLS,
           members |-> With(POOL_MEMBERS, key, With(MembersOf(key), member_name, member)),
           virtuals |-> VIRTUALS]

\* GET /mgmt/tm/ltm/pool/{resource_id}/members/{member_id}
\* members.get(mname) or members.get(member_id): a member dict is never empty.
get_pool_member_h(resource_id, member_id) ==
  LET key == parse_f5_id(resource_id)
      mname == parse_f5_id(member_id)[2]
      members == MembersOf(key)
  IN IF key \notin DOMAIN POOLS THEN Failure(404, "pool not found")
     ELSE IF mname \in DOMAIN members /\ members[mname] # EmptyDict
          THEN Result(200, "", members[mname])
     ELSE IF member_id \in DOMAIN members /\ members[member_id] # EmptyDict
          THEN Result(200, "", members[member_id])
     ELSE Failure(404, "member not found")

\* PUT/PATCH /mgmt/tm/ltm/pool/{resource_id}/members/{member_id}
update_pool_member_h(resource_id, member_id, body_json) ==
  LET key == parse_f5_id(resource_id)
      mname == parse_f5_id(member_id)[2]
      members == MembersOf(key)
  IN IF mname \notin DOMAIN members THEN Failure(404, "member not found")
     ELSE LET member == Merge(members[mname], body_json)
          IN [status |-> 200, detail |-> "", body |-> member, pools |-> POOLS,
              members |-> With(POOL_MEMBERS, key, With(members, mname, member)),
              virtuals |-> VIRTUALS]

\* DELETE /mgmt/tm/ltm/pool/{resource_id}/members/{member_id}
delete_pool_member_h(resource_id, member_id) ==
  LET key == parse_f5_id(resource_id)
      mname == parse_f5_id(member_id)[2]
      members == MembersOf(key)
  IN IF mname \in DOMAIN members
     THEN [status |-> 200, detail |-> "", body |-> [message |-> "deleted"],
           pools |-> POOLS,
           members |-> With(POOL_MEMBERS, key, Without(members, mname)),
           virtuals |-> VIRTUALS]
     ELSE Failure(404, "member not found")

(***************************************************************************)
(* Virtual servers.                                                        *)
(***************************************************************************)
\* GET /mgmt/tm/ltm/virtual
list_virtuals_h ==
  Result(200, "",
         {With(With(VIRTUALS[k], "tmPartition", Get(VIRTUALS[k], "tmPartition", k[1])),
               "name", k[2]) : k \in DOMAIN VIRTUALS})

\* line 586: get("name") or (get("fullPath") and fullPath.split("/")[-1])
VirtualNameOf(body_json) ==
  IF Truthy(Get(body_json, "name", None)) THEN body_json["name"]
  ELSE IF Truthy(Get(body_json, "fullPath", None))
       THEN LastOf(split(body_json["fullPath"], "/"))
       ELSE Get(body_json, "fullPath", None)

VirtualRecord(body_json, partition, name) ==
  [name |-> name,
   tmPartition |-> partition,
   description |-> Get(body_json, "description", <<>>),
   destination |-> Get(body_json, "destination", None),
   pool |-> Get(body_json, "pool", None),
   enabled |-> Get(body_json, "enabled", BoolTrue),
   connectionLimit |-> Get(body_json, "connectionLimit", Num0),
   selfLink |-> <<"/mgmt/tm/ltm/virtual/">> \o KeyId(partition, name)]

\* POST /mgmt/tm/ltm/virtual
create_virtual_h(body_json) ==
  IF body_json = EmptyDict THEN Failure(400, "empty body")
  ELSE IF ~Truthy(VirtualNameOf(body_json)) THEN Failure(400, "missing name")
  ELSE LET name == VirtualNameOf(body_json)
           partition == PartitionOf(body_json)
           virtual == VirtualRecord(body_json, partition, name)
       IN [status |-> 201, detail |-> "", body |-> virtual, pools |-> POOLS,
           members |-> POOL_MEMBERS,
           virtuals |-> With(VIRTUALS, <<partition, name>>, virtual)]

\* GET /mgmt/tm/ltm/virtual/{resource_id}
get_virtual_h(resource_id) ==
  LET key == parse_f5_id(resource_id)
  IN IF key \notin DOMAIN VIRTUALS THEN Failure(404, "virtual not found")
     ELSE Result(200, "", VIRTUALS[key])

\* PUT/PATCH /mgmt/tm/ltm/virtual/{resource_id}
update_virtual_h(resource_id, body_json) ==
  LET key == parse_f5_id(resource_id)
  IN IF key \notin DOMAIN VIRTUALS THEN Failure(404, "virtual not found")
     ELSE LET v == Merge(VIRTUALS[key], body_json)
          IN [status |-> 200, detail |-> "", body |-> v, pools |-> POOLS,
              members |-> POOL_MEMBERS, virtuals |-> With(VIRTUALS, key, v)]

\* DELETE /mgmt/tm/ltm/virtual/{resource_id}
delete_virtual_h(resource_id) ==
  LET key == parse_f5_id(resource_id)
  IN IF key \in DOMAIN VIRTUALS
     THEN [status |-> 200, detail |-> "", body |-> [message |-> "deleted"],
           pools |-> POOLS, members |-> POOL_MEMBERS,
           virtuals |-> Without(VIRTUALS, key)]
     ELSE Failure(404, "virtual not found")

(***************************************************************************)
(* The protected endpoints: Depends(authenticate_user_or_token), then the  *)
(* handler.                                                                *)
(***************************************************************************)
list_pools(auth) == Protected("list_pools", auth, list_pools_h)
create_pool(auth, body_json) ==
  Protected("create_pool", auth, create_pool_h(body_json))
get_pool(auth, resource_id) == Protected("get_pool", auth, get_pool_h(resource_id))
update_pool(auth, resource_id, body_items) ==
  Protected("update_pool", auth, update_pool_h(resource_id, body_items))
delete_pool(auth, resource_id) ==
  Protected("delete_pool", auth, delete_pool_h(resource_id))
list_pool_members(auth, resource_id) ==
  Protected("list_pool_members", auth, list_pool_members_h(resource_id))
create_pool_member(auth, resource_id, body_json) ==
  Protected("create_pool_member", auth, create_pool_member_h(resource_id, body_json))
get_pool_member(auth, resource_id, member_id) ==
  Protected("get_pool_member", auth, get_pool_member_h(resource_id, member_id))
update_pool_member(auth, resource_id, member_id, body_json) ==
  Protected("update_pool_member", auth,
            update_pool_member_h(resource_id, member_id, body_json))
delete_pool_member(auth, resource_id, member_id) ==
  Protected("delete_pool_member", auth, delete_pool_member_h(resource_id, member_id))
list_virtuals(auth) == Protected("list_virtuals", auth, list_virtuals_h)
create_virtual(auth, body_json) ==
  Protected("create_virtual", auth, create_virtual_h(body_json))
get_virtual(auth, resource_id) ==
  Protected("get_virtual", auth, get_virtual_h(resource_id))
update_virtual(auth, resource_id, body_json) ==
  Protected("update_virtual", auth, update_virtual_h(resource_id, body_json))
delete_virtual(auth, resource_id) ==
  Protected("delete_virtual", auth, delete_virtual_h(resource_id))

(***************************************************************************)
(* Inputs.                                                                 *)
(***************************************************************************)
PoolP == <<"p">>
PartX == <<"X">>
MemberM == <<"m">>
VirtualV == <<"v">>
DescD == <<"d">>
TildeId(partition, name) == <<"~">> \o partition \o <<"~">> \o name
SlashId(partition, name) == <<"/">> \o partition \o <<"/">> \o name

\* The token header: absent, a value never issued, a value uuid4 gives.
TokenHeaders == {NoneS, "BOGUS"} \cup {uuid4(n) : n \in 1..MaxLogins}
GoodBasic(t) == Basic(t, DEFAULT_USERNAME, DEFAULT_PASSWORD)
WrongBasic(t) == Basic(t, "wrong", "credentials")
\* test_auth.py's pair: the right username with another password
HalfBasic(t) == Basic(t, DEFAULT_USERNAME, "admin")
AuthInputs == UNION {{NoBasic(t), GoodBasic(t), WrongBasic(t)} : t \in TokenHeaders}
\* The requests of a client that sends no token header.
BasicOnlyInputs ==
  {NoBasic(NoneS), GoodBasic(NoneS), WrongBasic(NoneS), HalfBasic(NoneS)}
LoginBodies ==
  {EmptyDict, [username |-> DEFAULT_USERNAME],
   [username |-> "wrong", password |-> DEFAULT_PASSWORD],
   [username |-> DEFAULT_USERNAME, password |-> "credentials"],
   [username |-> DEFAULT_USERNAME, password |-> DEFAULT_PASSWORD]}

PoolIds == {PoolP, TildeId(Common, PoolP), TildeId(PartX, PoolP)}
PoolBodies ==
  {EmptyDict, [description |-> DescD], [name |-> PoolP],
   [name |-> PoolP, partition |-> PartX, lb_method |-> <<"least-connections">>]}
PoolPatches == {<< <<"lb_method", <<"ratio-member">> >> >>}
MemberIds == {MemberM, TildeId(Common, MemberM)}
MemberBodies == {EmptyDict, [name |-> MemberM]}
MemberPatches == {[state |-> <<"user-down">>]}
VirtualIds == {VirtualV, TildeId(Common, VirtualV)}
VirtualBodies == {EmptyDict, [description |-> DescD], [name |-> VirtualV, pool |-> PoolP]}
VirtualPatches == {[description |-> DescD]}

(***************************************************************************)
(* The state after the module is loaded.                                   *)
(***************************************************************************)
NoResponse == Reply("none", Unread, 0, "", NoneS, EmptyDict)

\* The requests being handled at once: a slot holds the request, the line
\* its handling has reached (pc) and, once done, its response.
Slots == 1..MaxInFlight
NoTokenInfo == [username |-> NoneS, expiration |-> 0, created |-> 0]
Idle ==
  [op |-> "idle", pc |-> "idle", auth |-> Unread, token_id |-> NoneS,
   resource_id |-> <<>>, body_json |-> EmptyDict, token_info |-> NoTokenInfo,
   expiredOnArrival |-> FALSE, status |-> 0, detail |-> ""]

\* No function is being applied.
Pending == <<"<pending>">>
NoCall == [fn |-> "none", arg |-> <<>>, ret |-> Pending]

\* The module's state after import.
Constructed ==
  /\ inflight = [s \in Slots |-> Idle]
  /\ POOLS = EmptyDict
  /\ POOL_MEMBERS = EmptyDict
  /\ VIRTUALS = EmptyDict
  /\ ACTIVE_TOKENS = EmptyDict
  /\ now = 0
  /\ utcOffset \in UtcOffsets
  /\ uuidDrawn = 0
  /\ issuedAt = EmptyDict
  /\ last = NoResponse

Init == Constructed /\ call = NoCall

(***************************************************************************)
(* Spec: the resource store under requests handled one after another, by   *)
(* clients that authenticate with basic credentials or not at all.         *)
(***************************************************************************)
Request(a) ==
  \/ get_sys_info(a)
  \/ get_global_settings(a)
  \/ list_pools(a)
  \/ \E b \in PoolBodies : create_pool(a, b)
  \/ \E r \in PoolIds : get_pool(a, r)
  \/ \E r \in PoolIds, b \in PoolPatches : update_pool(a, r, b)
  \/ \E r \in PoolIds : delete_pool(a, r)
  \/ \E r \in PoolIds : list_pool_members(a, r)
  \/ \E r \in PoolIds, b \in MemberBodies : create_pool_member(a, r, b)
  \/ \E r \in PoolIds, i \in MemberIds : get_pool_member(a, r, i)
  \/ \E r \in PoolIds, i \in MemberIds, b \in MemberPatches :
       update_pool_member(a, r, i, b)
  \/ \E r \in PoolIds, i \in MemberIds : delete_pool_member(a, r, i)
  \/ list_virtuals(a)
  \/ \E b \in VirtualBodies : create_virtual(a, b)
  \/ \E r \in VirtualIds : get_virtual(a, r)
  \/ \E r \in VirtualIds, b \in VirtualPatches : update_virtual(a, r, b)
  \/ \E r \in VirtualIds : delete_virtual(a, r)

Next == \E a \in BasicOnlyInputs : Request(a)

\* The store's behaviour does not read the clock: the zone is left at UTC.
StoreInit == Init /\ utcOffset = 0
Spec == StoreInit /\ [][Next]_vars

(***************************************************************************)
(* AuthSpec: logins, the clock, and token or basic authentication at three *)
(* of the protected endpoints (every protected handler goes through the    *)
(* same Protected).                                                        *)
(***************************************************************************)
OnePool == [name |-> PoolP]

AuthRequest(a) ==
  \/ get_sys_info(a)
  \/ create_pool(a, OnePool)
  \/ get_pool(a, PoolP)

AuthNext ==
  \/ \E b \in LoginBodies : login(b)
  \/ \E t \in TokenHeaders \ {NoneS} : get_token_info(t)
  \/ \E dt \in {1, TokenLifetime} : Tick(dt)
  \/ \E a \in AuthInputs : AuthRequest(a)

\* The host's zone is UTC.
AuthSpec == StoreInit /\ [][AuthNext]_vars

\* ZoneSpec: the same requests on a host in any of the zones UtcOffsets.
ZoneSpec == Init /\ [][AuthNext]_vars

(***************************************************************************)
(* Requests handled at once.  A dependency declared with def runs in a     *)
(* worker thread, so the lines of authenticate_user_or_token that touch    *)
(* ACTIVE_TOKENS interleave with every other thread's; an async def        *)
(* handler runs on the event loop, where after `await log_request` no      *)
(* other coroutine runs until it returns, but worker threads still do.     *)
(* The clients send a round of at most MaxInFlight requests and collect    *)
(* the responses.                                                          *)
(***************************************************************************)
\* The token a request presents.
Presented(r) == IF r.op = "get_token_info" THEN r.token_id ELSE r.auth.token

Arrive(s, op, auth, token_id, resource_id, body_json) ==
  LET t == IF op = "get_token_info" THEN token_id ELSE auth.token
  IN /\ inflight[s].pc = "idle"
     /\ inflight' =
          [inflight EXCEPT ![s] =
             [Idle EXCEPT !.op = op,
                          !.pc = IF op = "get_token_info" THEN "await" ELSE "gate",
                          !.auth = auth, !.token_id = token_id,
                          !.resource_id = resource_id, !.body_json = body_json,
                          !.expiredOnArrival =
                            /\ t \in DOMAIN ACTIVE_TOKENS
                            /\ Expired(ACTIVE_TOKENS[t], now)]]
     /\ UNCHANGED <<stores, ACTIVE_TOKENS, clock, uuidDrawn, issuedAt, last, call>>

\* The request in slot s moves to line pc.
Goto(s, pc) == [inflight EXCEPT ![s].pc = pc]
\* The request in slot s is answered: an HTTPException or the handler's
\* return; an exception nothing catches reaches global_exception_handler.
Answer(s, status, detail) ==
  [inflight EXCEPT ![s].pc = "done", ![s].status = status, ![s].detail = detail]
KeyError(s) == Answer(s, 500, "Internal server error")

\* Depends(security), `if auth_token:`, and then either authenticate_user or
\* line 155, `if auth_token in ACTIVE_TOKENS:`.
GateEnter(s) ==
  LET r == inflight[s]
  IN /\ r.pc = "gate"
     /\ inflight' =
          IF HTTPBasicMissing(r.auth) THEN Answer(s, 401, "Not authenticated")
          ELSE IF ~TruthyS(r.auth.token)
               THEN IF authenticate_user(r.auth).ok THEN Goto(s, "await")
                    ELSE Answer(s, 401, authenticate_user(r.auth).detail)
          ELSE IF r.auth.token \in DOMAIN ACTIVE_TOKENS THEN Goto(s, "gate:156")
          ELSE Answer(s, 401, "Invalid token")
     /\ UNCHANGED <<stores, ACTIVE_TOKENS, clock, uuidDrawn, issuedAt, last, call>>

\* line 156: token_info = ACTIVE_TOKENS[auth_token]
GateRead(s) ==
  LET r == inflight[s]
  IN /\ r.pc = "gate:156"
     /\ inflight' =
          IF r.auth.token \in DOMAIN ACTIVE_TOKENS
          THEN [Goto(s, "gate:161") EXCEPT
                  ![s].token_info = ACTIVE_TOKENS[r.auth.token]]
          ELSE KeyError(s)
     /\ UNCHANGED <<stores, ACTIVE_TOKENS, clock, uuidDrawn, issuedAt, last, call>>

\* lines 160-161: the clock is read and compared with the record read.
GateCheck(s) ==
  LET r == inflight[s]
  IN /\ r.pc = "gate:161"
     /\ inflight' = IF Expired(r.token_info, now) THEN Goto(s, "gate:163")
                    ELSE Goto(s, "await")
     /\ UNCHANGED <<stores, ACTIVE_TOKENS, clock, uuidDrawn, issuedAt, last, call>>

\* line 163: del ACTIVE_TOKENS[auth_token], then HTTPException(401)
GateDelete(s) ==
  LET r == inflight[s]
  IN /\ r.pc = "gate:163"
     /\ IF r.auth.token \in DOMAIN ACTIVE_TOKENS
        THEN /\ ACTIVE_TOKENS' = Without(ACTIVE_TOKENS, r.auth.token)
             /\ inflight' = Answer(s, 401, "Token expired")
        ELSE /\ inflight' = KeyError(s)
             /\ UNCHANGED ACTIVE_TOKENS
     /\ UNCHANGED <<stores, clock, uuidDrawn, issuedAt, last, call>>

\* The event loop is inside get_token_info, between two of its lines.
LoopBusy == \E s \in Slots : inflight[s].pc \in {"info:361", "info:365", "info:368"}

\* What a protected handler does once the gate has let the request in.
Effect(r) ==
  IF r.op = "create_pool" THEN create_pool_h(r.body_json)
  ELSE IF r.op = "update_pool" THEN update_pool_h(r.resource_id, r.body_json)
  ELSE Result(200, "", [kind |-> "tm:sys:collectionstate"])

\* A protected handler from `await log_request` to its return: it has no
\* other await, and no worker thread touches the stores.
Handle(s) ==
  LET r == inflight[s]
      h == Effect(r)
  IN /\ r.pc = "await"
     /\ r.op # "get_token_info"
     /\ ~LoopBusy
     /\ POOLS' = h.pools
     /\ POOL_MEMBERS' = h.members
     /\ VIRTUALS' = h.virtuals
     /\ inflight' = Answer(s, h.status, h.detail)
     /\ UNCHANGED <<ACTIVE_TOKENS, clock, uuidDrawn, issuedAt, last, call>>

\* get_token_info, line 360: if token_id in ACTIVE_TOKENS
InfoEnter(s) ==
  LET r == inflight[s]
  IN /\ r.pc = "await"
     /\ r.op = "get_token_info"
     /\ ~LoopBusy
     /\ inflight' = IF r.token_id \in DOMAIN ACTIVE_TOKENS THEN Goto(s, "info:361")
                    ELSE Answer(s, 404, "Token not found")
     /\ UNCHANGED <<stores, ACTIVE_TOKENS, clock, uuidDrawn, issuedAt, last, call>>

\* line 361: token_info = ACTIVE_TOKENS[token_id]
InfoRead(s) ==
  LET r == inflight[s]
  IN /\ r.pc = "info:361"
     /\ inflight' =
          IF r.token_id \in DOMAIN ACTIVE_TOKENS
          THEN [Goto(s, "info:365") EXCEPT
                  ![s].token_info = ACTIVE_TOKENS[r.token_id]]
          ELSE KeyError(s)
     /\ UNCHANGED <<stores, ACTIVE_TOKENS, clock, uuidDrawn, issuedAt, last, call>>

\* lines 365-366
InfoCheck(s) ==
  LET r == inflight[s]
  IN /\ r.pc = "info:365"
     /\ inflight' = IF Expired(r.token_info, now) THEN Goto(s, "info:368")
                    ELSE Answer(s, 200, "")
     /\ UNCHANGED <<stores, ACTIVE_TOKENS, clock, uuidDrawn, issuedAt, last, call>>

\* line 368: del ACTIVE_TOKENS[token_id], then HTTPException(404)
InfoDelete(s) ==
  LET r == inflight[s]
  IN /\ r.pc = "info:368"
     /\ IF r.token_id \in DOMAIN ACTIVE_TOKENS
        THEN /\ ACTIVE_TOKENS' = Without(ACTIVE_TOKENS, r.token_id)
             /\ inflight' = Answer(s, 404, "Token not found or expired")
        ELSE /\ inflight' = KeyError(s)
             /\ UNCHANGED ACTIVE_TOKENS
     /\ UNCHANGED <<stores, clock, uuidDrawn, issuedAt, last, call>>

\* The round is over: every response has been collected.
Collect ==
  /\ \A s \in Slots : inflight[s].pc \in {"idle", "done"}
  /\ \E s \in Slots : inflight[s].pc = "done"
  /\ inflight' = [s \in Slots |-> Idle]
  /\ UNCHANGED <<stores, ACTIVE_TOKENS, clock, uuidDrawn, issuedAt, last, call>>

(***************************************************************************)
(* TokenRaceSpec: logins, the clock, and rounds of requests that present   *)
(* an issued token at the gate or to get_token_info.                       *)
(***************************************************************************)
GoodLogin == [username |-> DEFAULT_USERNAME, password |-> DEFAULT_PASSWORD]
IssuedTokens == {uuid4(n) : n \in 1..MaxLogins}

TokenRaceNext ==
  \/ ~LoopBusy /\ login(GoodLogin)
  \/ \E dt \in {1, TokenLifetime} : Tick(dt)
  \/ \E s \in Slots, t \in IssuedTokens :
       Arrive(s, "get_sys_info", GoodBasic(t), NoneS, <<>>, EmptyDict)
  \/ \E s \in Slots, t \in IssuedTokens :
       Arrive(s, "get_token_info", Unread, t, <<>>, EmptyDict)
  \/ \E s \in Slots : GateEnter(s)
  \/ \E s \in Slots : GateRead(s)
  \/ \E s \in Slots : GateCheck(s)
  \/ \E s \in Slots : GateDelete(s)
  \/ \E s \in Slots : Handle(s)
  \/ \E s \in Slots : InfoEnter(s)
  \/ \E s \in Slots : InfoRead(s)
  \/ \E s \in Slots : InfoCheck(s)
  \/ \E s \in Slots : InfoDelete(s)
  \/ Collect

TokenRaceSpec == StoreInit /\ [][TokenRaceNext]_vars

(***************************************************************************)
(* PoolRaceSpec: rounds of pool creations and updates by a client with the *)
(* right basic credentials.                                                *)
(***************************************************************************)
OtherPool == [name |-> PoolP, partition |-> PartX]
LbPatch == << <<"lb_method", <<"ratio-member">> >> >>
DescriptionPatch == << <<"description", DescD>> >>

PoolRaceNext ==
  \/ \E s \in Slots, b \in {OnePool, OtherPool} :
       Arrive(s, "create_pool", GoodBasic(NoneS), NoneS, <<>>, b)
  \/ \E s \in Slots, b \in {LbPatch, DescriptionPatch} :
       Arrive(s, "update_pool", GoodBasic(NoneS), NoneS, PoolP, b)
  \/ \E s \in Slots : GateEnter(s)
  \/ \E s \in Slots : Handle(s)
  \/ Collect

PoolRaceSpec == StoreInit /\ [][PoolRaceNext]_vars

(***************************************************************************)
(* ParseSpec: parse_f5_id applied to an identifier, any string of at most  *)
(* MaxIdLen characters over IdAlphabet.                                    *)
(***************************************************************************)
IdAlphabet == {"~", "/", "a", "b"}
StrsUpTo(n, alphabet) == UNION {[1..k -> alphabet] : k \in 0..n}
Ids == StrsUpTo(MaxIdLen, IdAlphabet)

Call(fn, arg) == [fn |-> fn, arg |-> arg, ret |-> Pending]
\* The function returns.
Return(fn, ret) ==
  /\ call.fn = fn
  /\ call.ret = Pending
  /\ call' = [call EXCEPT !.ret = ret]
  /\ UNCHANGED <<stores, ACTIVE_TOKENS, clock, uuidDrawn, issuedAt, last, inflight>>

ParseInit == Constructed /\ utcOffset = 0 /\ call \in {Call("parse_f5_id", i) : i \in Ids}
ParseNext == Return("parse_f5_id", parse_f5_id(call.arg))
ParseSpec == ParseInit /\ [][ParseNext]_vars


(***************************************************************************)
(* DeriveSpec: one create body, given to create_pool and to create_virtual *)
(* on the empty stores by a client with the right credentials, and the     *)
(* created pool read back through the identifier in its selfLink.          *)
(***************************************************************************)
\* A field the body does not have.
Absent == <<"<absent>">>
\* The dict of the pairs <<k, v>> whose v is not Absent.
DictOf(pairs) ==
  [k \in {pr[1] : pr \in {x \in pairs : x[2] # Absent}} |->
     (CHOOSE pr \in pairs : pr[1] = k)[2]]
NameQ == <<"q">>
PartY == <<"Y">>
SlashPath(partition, name) == <<"/">> \o partition \o <<"/">> \o name
DeriveBodies ==
  {DictOf({<<"name", n>>, <<"fullPath", f>>, <<"partition", q>>,
           <<"lb_method", l>>, <<"loadBalancingMode", m>>}) :
     n \in {Absent, None, <<>>, PoolP, PoolP \o <<"~">> \o NameQ},
     f \in {Absent, NameQ, SlashPath(PartY, NameQ),
            SlashPath(PartY, NameQ) \o <<"/">>},
     q \in {Absent, PartX},
     l \in {Absent, <<"least-connections">>},
     m \in {Absent, <<"ratio-member">>}}

\* The identifier in a record's selfLink: what follows the collection's path.
IdOfLink(selfLink) == Tail(selfLink)

DeriveInit ==
  Constructed /\ utcOffset = 0 /\ call \in {Call("create", b) : b \in DeriveBodies}
DeriveNext ==
  \/ create_pool(GoodBasic(NoneS), call.arg)
  \/ create_virtual(GoodBasic(NoneS), call.arg)
  \/ \E k \in DOMAIN POOLS : get_pool(GoodBasic(NoneS), IdOfLink(POOLS[k].selfLink))
DeriveSpec == DeriveInit /\ [][DeriveNext]_vars


(***************************************************************************)
(* PatchSpec: one update_pool request (identifier and patch body) against  *)
(* stores in which the pool it names exists or not.                        *)
(***************************************************************************)
MaxPatchLen == 2
\* The items a patch body is made of; a body has each key once, in any order.
PatchItems ==
  {<<"lb_method", <<"ratio-member">> >>,
   <<"loadBalancingMode", <<"least-connections">> >>,
   <<"min_up_members", Num1>>,
   <<"monitor_type", <<"http">> >>,
   <<"description", DescD>>,
   <<"name", NameQ>>,
   <<"color", <<"red">> >>}
PatchBodies ==
  {b \in UNION {[1..n -> PatchItems] : n \in 0..MaxPatchLen} :
     \A i, j \in 1..Len(b) : b[i][1] = b[j][1] => i = j}

PatchInit ==
  /\ Constructed /\ utcOffset = 0
  /\ call \in {Call("update_pool", [resource_id |-> r, body_json |-> b]) :
                 r \in PoolIds, b \in PatchBodies}
PatchNext ==
  \/ \E b \in {OnePool, OtherPool} : create_pool(GoodBasic(NoneS), b)
  \/ update_pool(GoodBasic(NoneS), call.arg.resource_id, call.arg.body_json)
  \/ get_pool(GoodBasic(NoneS), call.arg.resource_id)
PatchSpec == PatchInit /\ [][PatchNext]_vars


(***************************************************************************)
(* MemberSpec: the five pool-member operations for one request (pool       *)
(* identifier, member identifier, body), the parent pool existing or not.  *)
(***************************************************************************)
MaxMemberPatchLen == 2
MemberN == <<"n">>
MemberPatchItems ==
  {<<"state", <<"user-down">> >>, <<"ratio", <<"#5">> >>,
   <<"lb_method", <<"ratio-member">> >>, <<"monitor_type", <<"http">> >>}
MemberPatchBodies ==
  {DictOf(s) : s \in {t \in SUBSET MemberPatchItems : Cardinality(t) <= MaxMemberPatchLen}}

MemberInit ==
  /\ Constructed /\ utcOffset = 0
  /\ call \in {Call("member", [resource_id |-> r, member_id |-> m, body_json |-> b]) :
                 r \in {PoolP, TildeId(PartX, PoolP)},
                 m \in {MemberM, TildeId(Common, MemberM)},
                 b \in MemberPatchBodies}
MemberNext ==
  LET ok == GoodBasic(NoneS)
      r == call.arg.resource_id
      m == call.arg.member_id
  IN \/ \E b \in {OnePool, OtherPool} : create_pool(ok, b)
     \/ delete_pool(ok, r)
     \/ \E n \in {MemberM, MemberN} : create_pool_member(ok, r, [name |-> n])
     \/ list_pool_members(ok, r)
     \/ create_pool_member(ok, r, call.arg.body_json)
     \/ get_pool_member(ok, r, m)
     \/ update_pool_member(ok, r, m, call.arg.body_json)
     \/ delete_pool_member(ok, r, m)
MemberSpec == MemberInit /\ [][MemberNext]_vars


(***************************************************************************)
(* UpsertSpec: pools, their members and virtual servers created, patched,  *)
(* created again and deleted under the same keys; the virtual servers'     *)
(* pool reference names a pool that is there at times and at times not.    *)
(***************************************************************************)
UpsertBodies ==
  {[name |-> PoolP],
   [name |-> PoolP, description |-> DescD, lb_method |-> <<"least-connections">>,
    pool |-> PoolP, destination |-> <<"10.0.0.1:80">>],
   [name |-> PoolP, partition |-> PartX, pool |-> PoolP]}
UpsertPoolPatch == << <<"lb_method", <<"ratio-member">> >>, <<"color", <<"red">> >> >>
UpsertVirtualPatch == [description |-> <<"e">>, color |-> <<"red">>]

\* The pools whose members are written.
UpsertPoolIds == {PoolP, TildeId(PartX, PoolP)}
UpsertNext ==
  LET ok == GoodBasic(NoneS)
  IN \/ \E b \in UpsertBodies : create_pool(ok, b)
     \/ \E r \in PoolIds : update_pool(ok, r, UpsertPoolPatch)
     \/ \E r \in PoolIds : delete_pool(ok, r)
     \/ \E r \in UpsertPoolIds : create_pool_member(ok, r, [name |-> MemberM])
     \/ \E r \in UpsertPoolIds :
          update_pool_member(ok, r, MemberM, [state |-> <<"user-down">>])
     \/ \E r \in UpsertPoolIds : delete_pool_member(ok, r, MemberM)
     \/ \E b \in UpsertBodies : create_virtual(ok, b)
     \/ \E r \in PoolIds : update_virtual(ok, r, UpsertVirtualPatch)
     \/ \E r \in PoolIds : delete_virtual(ok, r)
     \/ list_pools(ok) \/ list_virtuals(ok)
     \/ get_pool(ok, PoolP) \/ get_virtual(ok, PoolP)
     \/ list_pool_members(ok, PoolP) \/ get_pool_member(ok, PoolP, MemberM)
UpsertSpec == StoreInit /\ [][UpsertNext]_vars


(***************************************************************************)
(* MemberCreateSpec: one create_pool_member body, given to the pool p,     *)
(* before and after the member it names is there and has been patched.     *)
(***************************************************************************)
AddressA == <<"10.0.0.1">>
MemberCreateBodies ==
  {DictOf({<<"name", n>>, <<"address", a>>, <<"port", p>>, <<"state", s>>}) :
     n \in {Absent, None, <<>>, MemberM},
     a \in {Absent, <<>>, AddressA},
     p \in {Absent, None, Num0, Num80},
     s \in {Absent, <<"user-down">>}}
MemberCreateInit ==
  Constructed /\ utcOffset = 0
  /\ call \in {Call("create_pool_member", b) : b \in MemberCreateBodies}
MemberCreateNext ==
  LET ok == GoodBasic(NoneS)
  IN \/ create_pool(ok, OnePool)
     \/ create_pool_member(ok, PoolP, [name |-> MemberN])
     \/ create_pool_member(ok, PoolP, call.arg)
     \/ \E m \in DOMAIN MembersOf(<<Common, PoolP>>) :
          update_pool_member(ok, PoolP, m, [color |-> <<"red">>, ratio |-> Num80])
MemberCreateSpec == MemberCreateInit /\ [][MemberCreateNext]_vars


(***************************************************************************)
(* AddressSpec: one member identifier, given to get_pool_member,           *)
(* update_pool_member and delete_pool_member of the pool p, whose members  *)
(* are named by the identifier as written and by the name it resolves to.  *)
(***************************************************************************)
\* The identifiers a path segment can carry: no "/".
SegmentIds == {i \in Ids : i # <<>> /\ ~contains(i, "/")}
AddressInit ==
  Constructed /\ utcOffset = 0
  /\ call \in {Call("member_id", i) : i \in SegmentIds}
AddressNext ==
  LET ok == GoodBasic(NoneS)
  IN \/ create_pool(ok, OnePool)
     \/ \E n \in {call.arg, parse_f5_id(call.arg)[2]} :
          create_pool_member(ok, PoolP, [name |-> n])
     \/ get_pool_member(ok, PoolP, call.arg)
     \/ update_pool_member(ok, PoolP, call.arg, [state |-> <<"user-down">>])
     \/ delete_pool_member(ok, PoolP, call.arg)
AddressSpec == AddressInit /\ [][AddressNext]_vars


(***************************************************************************)
(* Properties of the authentication gate and the token store (AuthSpec).   *)
(***************************************************************************)
\* The token t is stored and not expired at the current time.
Live(t) == t \in DOMAIN ACTIVE_TOKENS /\ ~Expired(ACTIVE_TOKENS[t], now)

\* C1: at a protected endpoint, a request whose X-F5-Auth-Token header names
\* an issued, unexpired token and which carries no basic credentials passes
\* the gate as the token's owner: it is not answered 401.
C1_TokenAloneIsAccepted ==
  [][\A t \in TokenHeaders :
       (Live(t) /\ AuthRequest(NoBasic(t)))
       => (last'.status # 401 /\ last'.user = ACTIVE_TOKENS[t].username)]_vars

\* The credentials of a request with no token header do not pass: the
\* Authorization header is absent or does not match the configured pair.
BadCredentials(a) ==
  a.token = NoneS
  /\ (~a.hasBasic \/ a.username # DEFAULT_USERNAME \/ a.password # DEFAULT_PASSWORD)

\* The handlers behind Depends(authenticate_user_or_token).
ProtectedOps ==
  {"get_sys_info", "get_global_settings", "list_pools", "create_pool", "get_pool",
   "update_pool", "delete_pool", "list_pool_members", "create_pool_member",
   "get_pool_member", "update_pool_member", "delete_pool_member", "list_virtuals",
   "create_virtual", "get_virtual", "update_virtual", "delete_virtual"}
\* A step that handles a request (the clock stands still within one); last'
\* then names its handler and authentication headers.
Handled(ops) == now' = now /\ last'.op \in ops

\* C2: a request with no token header and with absent or mismatching basic
\* credentials is answered 401 advertising Basic and leaves POOLS,
\* POOL_MEMBERS and VIRTUALS as they were; and the stores change only in a
\* step of a request that passed the gate.
C2_NoStoreOperationWithoutAuthentication ==
  [][/\ (Handled(ProtectedOps) /\ BadCredentials(last'.auth))
        => (last'.status = 401 /\ last'.www = "Basic" /\ UNCHANGED stores)
     /\ stores' # stores
        => (Handled(ProtectedOps) /\ last'.user = DEFAULT_USERNAME
            /\ ~BadCredentials(last'.auth))]_vars
\* A rejected delete of a pool that exists and has a member.
C2_Witness ==
  /\ last.op = "delete_pool" /\ last.status = 401
  /\ \E k \in DOMAIN POOLS : k \in DOMAIN POOL_MEMBERS /\ POOL_MEMBERS[k] # EmptyDict
  /\ VIRTUALS # EmptyDict

\* C3: every stored token has expiration = created + 1,200,000,000
\* microseconds, and the descriptor a successful login returns reports the
\* stored created and expiration values with timeout 1200.
C3_ExpirationIsCreationPlusLifetime ==
  /\ \A t \in DOMAIN ACTIVE_TOKENS :
       (ACTIVE_TOKENS[t].expiration - ACTIVE_TOKENS[t].created) * ClockUnit
         = 1200000000
  /\ (last.op = "login" /\ last.status = 200)
     => /\ last.body.token \in DOMAIN ACTIVE_TOKENS
        /\ last.body.lastUpdateMicros = ACTIVE_TOKENS[last.body.token].created
        /\ last.body.expirationMicros = ACTIVE_TOKENS[last.body.token].expiration
        /\ last.body.timeout = 1200
\* A second login has just succeeded, later than the first.
C3_Witness ==
  /\ last.op = "login" /\ last.status = 200
  /\ Cardinality(DOMAIN ACTIVE_TOKENS) = 2
  /\ \E t \in DOMAIN ACTIVE_TOKENS : ACTIVE_TOKENS[t].created # 0

Evicted(t) == t \in DOMAIN issuedAt /\ t \notin DOMAIN ACTIVE_TOKENS
\* A step of a protected request whose token header is t (with withBasic:
\* and which carries an Authorization: Basic header).
GateAccess(t, withBasic) ==
  /\ Handled(ProtectedOps)
  /\ last'.auth.token = t
  /\ withBasic => last'.auth.hasBasic

\* What lazy expiry asks of a step, for the accesses GateAccess(t, withBasic)
\* and get_token_info(t).
LazyExpiryStep(withBasic) ==
  \A t \in TokenHeaders \ {NoneS} :
    /\ GateAccess(t, withBasic)
       => /\ (t \in DOMAIN ACTIVE_TOKENS /\ ~Live(t))
             => /\ last'.status = 401 /\ last'.detail = "Token expired"
                /\ t \notin DOMAIN ACTIVE_TOKENS'
          /\ Live(t)
             => /\ last'.status # 401 /\ last'.user = ACTIVE_TOKENS[t].username
                /\ UNCHANGED ACTIVE_TOKENS
          /\ Evicted(t) => last'.status = 401 /\ last'.detail = "Invalid token"
    /\ get_token_info(t)
       => /\ (t \in DOMAIN ACTIVE_TOKENS /\ ~Live(t))
             => last'.status = 404 /\ t \notin DOMAIN ACTIVE_TOKENS'
          /\ Live(t) => last'.status = 200 /\ UNCHANGED ACTIVE_TOKENS
          /\ Evicted(t) => last'.status = 404
    /\ Evicted(t) => t \notin DOMAIN ACTIVE_TOKENS'

\* C5: the first access (gate or GetTokenInfo) to a stored token made when
\* now > expiration removes the record and fails (401 "Token expired" from
\* the gate, 404 from GetTokenInfo); an access made when now <= expiration
\* succeeds and keeps the record; once evicted, the token value is absent for
\* every later access (401 "Invalid token", 404) and never succeeds again.
C5_LazyExpiry == [][LazyExpiryStep(FALSE)]_vars

\* The same, for the protected requests that carry an Authorization: Basic
\* header (of any content) beside the token, and for GetTokenInfo.
LazyExpiryBesideBasicHeader == [][LazyExpiryStep(TRUE)]_vars
\* An expired token has been evicted by the gate and then looked up again.
LazyExpiryReached ==
  /\ \E t \in DOMAIN issuedAt : Evicted(t)
  /\ last.op = "get_sys_info" /\ last.detail = "Invalid token"

\* What C6 asks of a step that accesses the stored token t: accepted up to
\* 1200 seconds after its login, rejected as expired and evicted after that.
\* The gate's accesses are those that reach the token lookup.
LifetimeFromLoginStep ==
  \A t \in DOMAIN ACTIVE_TOKENS :
    LET age == now - issuedAt[t]
    IN /\ get_token_info(t)
          => IF age * (ClockUnit \div MicrosPerSecond) <= TokenLifetimeSeconds
             THEN last'.status = 200
             ELSE last'.status = 404 /\ t \notin DOMAIN ACTIVE_TOKENS'
       /\ GateAccess(t, TRUE)
          => IF age * (ClockUnit \div MicrosPerSecond) <= TokenLifetimeSeconds
             THEN last'.status # 401
             ELSE /\ last'.status = 401 /\ last'.detail = "Token expired"
                  /\ t \notin DOMAIN ACTIVE_TOKENS'

\* C6: a token's creation time is the time of its login on the clock the
\* expiry checks read: an access at any time from the login up to 1200
\* seconds after it is accepted, and a first access later than that is
\* rejected as expired.
C6_LifetimeCountsFromLogin == [][LifetimeFromLoginStep]_vars

\* The same where the process's local time zone is UTC.
LifetimeCountsFromLoginInUTC == [][utcOffset = 0 => LifetimeFromLoginStep]_vars

(***************************************************************************)
(* Properties of requests handled at once (TokenRaceSpec, PoolRaceSpec).   *)
(***************************************************************************)
Done(s) == inflight[s].pc = "done"
\* The status of the expiry error: 401 at the gate, 404 from get_token_info.
ExpiryStatus(r) == IF r.op = "get_token_info" THEN 404 ELSE 401

\* C7: when two requests of one round presented the same token, stored and
\* expired when each arrived, then whatever the interleaving each is answered
\* with its expiry status (401 at the gate, 404 from get_token_info), none
\* with 500, and the token's record is gone once both are answered.
C7_ConcurrentExpiredTokenAccess ==
  \A s1, s2 \in Slots :
    (/\ s1 # s2
     /\ Done(s1) /\ Done(s2)
     /\ inflight[s1].expiredOnArrival /\ inflight[s2].expiredOnArrival
     /\ Presented(inflight[s1]) = Presented(inflight[s2]))
    => /\ \A s \in {s1, s2} : inflight[s].status = ExpiryStatus(inflight[s])
       /\ Presented(inflight[s1]) \notin DOMAIN ACTIVE_TOKENS

KeyOfBody(body_json) == <<PartitionOf(body_json), PoolNameOf(body_json)>>
PatchedFields(items) == {PoolPatchField(items[i][1]) : i \in 1..Len(items)}
Carries(pool, items) ==
  \A i \in 1..Len(items) : pool[PoolPatchField(items[i][1])] = items[i][2]
\* The round consists of the two requests in s1 and s2, both answered.
RoundOfTwo(s1, s2) ==
  /\ s1 # s2
  /\ Done(s1) /\ Done(s2)
  /\ \A o \in Slots \ {s1, s2} : inflight[o].pc = "idle"
TwoCreates(s1, s2) ==
  /\ RoundOfTwo(s1, s2)
  /\ inflight[s1].op = "create_pool" /\ inflight[s2].op = "create_pool"
  /\ KeyOfBody(inflight[s1].body_json) # KeyOfBody(inflight[s2].body_json)
TwoUpdates(s1, s2) ==
  /\ RoundOfTwo(s1, s2)
  /\ inflight[s1].op = "update_pool" /\ inflight[s2].op = "update_pool"
  /\ inflight[s1].status = 200 /\ inflight[s2].status = 200
  /\ parse_f5_id(inflight[s1].resource_id) = parse_f5_id(inflight[s2].resource_id)
  /\ PatchedFields(inflight[s1].body_json)
       \cap PatchedFields(inflight[s2].body_json) = {}
Retrievable(body_json) ==
  LET key == KeyOfBody(body_json)
      got == get_pool_h(TildeId(key[1], key[2]))
  IN got.status = 200 /\ got.body.name = key[2] /\ got.body.tmPartition = key[1]

\* C8: in a round of two pool creations with different keys, under every
\* interleaving both are answered 201 and both pools can be read afterwards;
\* in a round of two successful updates of one pool that patch different
\* fields, the pool's record afterwards carries both patched values.
C8_ConcurrentPoolWritesTakeEffect ==
  \A s1, s2 \in Slots :
    /\ TwoCreates(s1, s2)
       => \A s \in {s1, s2} : /\ inflight[s].status = 201
                              /\ Retrievable(inflight[s].body_json)
    /\ TwoUpdates(s1, s2)
       => \A s \in {s1, s2} :
            Carries(POOLS[parse_f5_id(inflight[s].resource_id)],
                    inflight[s].body_json)
C8_Witness ==
  /\ \E s1, s2 \in Slots : TwoUpdates(s1, s2)
  /\ POOLS[<<Common, PoolP>>].loadBalancingMode = <<"ratio-member">>
  /\ POOLS[<<Common, PoolP>>].description = DescD

(***************************************************************************)
(* Properties of pool deletion and creation (Spec).                        *)
(***************************************************************************)
\* Every key that has a member collection has a pool.
MembersOnlyOfPools == DOMAIN POOL_MEMBERS \subseteq DOMAIN POOLS
\* A pool created at a key where no pool is starts with no members.
CreateOfAbsentStartsEmpty ==
  \A b \in PoolBodies :
    (create_pool_h(b).status = 201 /\ KeyOfBody(b) \notin DOMAIN POOLS)
    => create_pool_h(b).members[KeyOfBody(b)] = EmptyDict
\* A step of delete_pool (the request's headers are last'.auth) that the
\* gate lets in.
DeleteStep ==
  last'.op = "delete_pool"
  => \A r \in PoolIds :
    (delete_pool(last'.auth, r) /\ Gate(last'.auth).ok)
    => LET key == parse_f5_id(r)
       IN IF key \in DOMAIN POOLS
          THEN /\ last'.status = 200
               /\ key \notin DOMAIN POOLS'
               /\ key \notin DOMAIN POOL_MEMBERS'
               /\ get_pool_h(r)'.status = 404
               /\ list_pool_members_h(r)'.status = 404
               /\ CreateOfAbsentStartsEmpty'
          ELSE /\ last'.status = 404
               /\ last'.detail = "pool not found"
               /\ UNCHANGED <<stores, ACTIVE_TOKENS>>

\* C9: the delete of an existing pool is answered 200 and leaves neither the
\* pool nor a member collection at its key, so that get_pool and
\* list_pool_members of it answer 404 and a pool created there later has no
\* members (no key without a pool ever has a member collection); the delete
\* of an absent pool is answered 404 and changes nothing.
C9_DeleteRemovesPoolAndMembers ==
  [](MembersOnlyOfPools /\ CreateOfAbsentStartsEmpty) /\ [][DeleteStep]_vars
\* The last pool there was has been deleted.
C9_Witness ==
  /\ last.op = "delete_pool"
  /\ last.status = 200
  /\ POOLS = EmptyDict
  /\ POOL_MEMBERS = EmptyDict

\* A step of create_pool answered 201 (the request's headers are last'.auth).
Created(b) ==
  last'.op = "create_pool" /\ last'.status = 201 /\ create_pool(last'.auth, b)

\* C10 as stated: after every successful create_pool the key's member
\* collection is empty.
C10_CreateLeavesMembersEmpty ==
  [][\A b \in PoolBodies :
       Created(b) => POOL_MEMBERS'[KeyOfBody(b)] = EmptyDict]_vars

\* C10: after every successful create_pool the key has a member collection:
\* the one it had before the request if it had one, an empty one otherwise.
C10_CreateKeepsOrStartsMembers ==
  [][\A b \in PoolBodies :
       Created(b)
       => /\ KeyOfBody(b) \in DOMAIN POOL_MEMBERS'
          /\ POOL_MEMBERS'[KeyOfBody(b)] =
               IF KeyOfBody(b) \in DOMAIN POOL_MEMBERS
               THEN POOL_MEMBERS[KeyOfBody(b)]
               ELSE EmptyDict]_vars
\* A pool that has members has been created again.
C10_Witness ==
  /\ last.op = "create_pool"
  /\ last.status = 201
  /\ POOL_MEMBERS[<<last.body.tmPartition, last.body.name>>] # EmptyDict

(***************************************************************************)
(* Properties of the identifier resolver (ParseSpec).                      *)
(***************************************************************************)
\* parse_f5_id has returned ret for id_raw.
Parsed(id_raw, ret) ==
  call.fn = "parse_f5_id" /\ call.arg = id_raw /\ call.ret = ret
\* The non-empty strings of at most MaxNameLen letters: partitions and names
\* with no ~ and no /.
PlainNames == StrsUpTo(MaxNameLen, {"a", "b"}) \ {<<>>}
IsPair(ret) == DOMAIN ret = 1..2

\* C13: for all non-empty P and N without ~ and /, parse_f5_id returns (P, N)
\* for ~P~N, /P/N and P/N and ("Common", N) for N; for every string it
\* returns a pair.
C13_EncodingsResolve ==
  /\ call.fn = "parse_f5_id" /\ call.ret # Pending => IsPair(call.ret)
  /\ \A P \in PlainNames, N \in PlainNames :
       (/\ call.ret # Pending
        /\ call.fn = "parse_f5_id"
        /\ call.arg \in {<<"~">> \o P \o <<"~">> \o N, <<"/">> \o P \o <<"/">> \o N,
                         P \o <<"/">> \o N})
       => call.ret = <<P, N>>
  /\ \A N \in PlainNames :
       (call.fn = "parse_f5_id" /\ call.arg = N /\ call.ret # Pending)
       => call.ret = <<Common, N>>
\* The four encodings of one pair have been resolved (here /P/N, with two
\* different letters).
C13_Witness == Parsed(<<"/", "a", "/", "b">>, <<<<"a">>, <<"b">>>>)

\* The segments of id_raw under each rule.
TildeSegments(id_raw) == split(strip(id_raw, "~"), "~")
SlashSegments(id_raw) == split(strip(id_raw, "/"), "/")
\* parse_f5_id has returned for an identifier.
Returned == call.fn = "parse_f5_id" /\ call.ret # Pending

\* C14: for an identifier with no ~ that has two or more segments between
\* its slashes (leading and trailing / trimmed), parse_f5_id returns the first
\* segment as the partition and the last segment as the name.
C14_SlashFirstAndLast ==
  (/\ Returned
   /\ ~contains(call.arg, "~")
   /\ Len(SlashSegments(call.arg)) >= 2)
  => call.ret = <<SlashSegments(call.arg)[1], LastOf(SlashSegments(call.arg))>>

\* The slash rule has been used: the partition is the first segment and the
\* name a later one.
SlashResolved(id_raw, ret) ==
  /\ ret[1] = SlashSegments(id_raw)[1]
  /\ \E i \in 2..Len(SlashSegments(id_raw)) : ret[2] = SlashSegments(id_raw)[i]

\* C15 as stated: whenever trimming ~ and splitting on ~ gives two segments or
\* more the result is (first, second); otherwise, when trimming / and
\* splitting on / gives two or more, the slash rule is used; otherwise the
\* result is ("Common", identifier).
C15_TildeThenSlashThenBare ==
  Returned
  => IF Len(TildeSegments(call.arg)) >= 2
     THEN call.ret = <<TildeSegments(call.arg)[1], TildeSegments(call.arg)[2]>>
     ELSE IF Len(SlashSegments(call.arg)) >= 2
          THEN SlashResolved(call.arg, call.ret)
          ELSE call.ret = <<Common, call.arg>>

\* C15: the tilde rule is the first tried, for the identifiers that begin
\* with ~: when such an identifier has two ~-segments or more the result is
\* (first, second), whether or not it contains /; every other identifier with
\* two /-segments or more is resolved by the slash rule; the rest give
\* ("Common", identifier).
C15_LeadingTildeThenSlashThenBare ==
  Returned
  => IF startswith(call.arg, "~") /\ Len(TildeSegments(call.arg)) >= 2
     THEN call.ret = <<TildeSegments(call.arg)[1], TildeSegments(call.arg)[2]>>
     ELSE IF Len(SlashSegments(call.arg)) >= 2
          THEN SlashResolved(call.arg, call.ret)
          ELSE call.ret = <<Common, call.arg>>
\* An identifier in tilde form whose second segment contains a / has been
\* resolved by the tilde rule.
C15_Witness == Parsed(<<"~", "a", "~", "/", "b">>, <<<<"a">>, <<"/", "b">>>>)

(***************************************************************************)
(* Properties of the creation of pools and virtual servers (DeriveSpec).   *)
(***************************************************************************)
\* A step of create_pool / create_virtual with the body call.arg.
CreatePoolStep == last'.op = "create_pool" /\ call.fn = "create"
CreateVirtualStep == last'.op = "create_virtual" /\ call.fn = "create"
\* A non-empty body with neither a non-empty name nor a fullPath.
NoNameGiven(body_json) ==
  /\ body_json # EmptyDict
  /\ ~Truthy(Get(body_json, "name", None))
  /\ "fullPath" \notin DOMAIN body_json

\* C11: create_pool with a non-empty body that has neither a non-empty name
\* nor a fullPath is answered 400 "missing name" and stores nothing, whatever
\* else the body has.
C11_NoNameIsMissingField ==
  [][(CreatePoolStep /\ NoNameGiven(call.arg))
     => (last'.status = 400 /\ last'.detail = "missing name"
         /\ UNCHANGED stores)]_vars

\* C12: create_pool with a body that has no name, no partition and no
\* tmPartition, and a fullPath of two segments or more, stores the pool under
\* (first segment, last segment).
C12_FullPathGivesPartitionAndName ==
  [][(/\ CreatePoolStep
      /\ DOMAIN call.arg \cap {"name", "partition", "tmPartition"} = {}
      /\ "fullPath" \in DOMAIN call.arg
      /\ Len(SlashSegments(call.arg["fullPath"])) >= 2)
     => LET parts == SlashSegments(call.arg["fullPath"])
            key == <<parts[1], LastOf(parts)>>
        IN /\ last'.status = 201
           /\ DOMAIN POOLS' = {key}
           /\ POOLS'[key].name = key[2]
           /\ POOLS'[key].tmPartition = key[1]]_vars

\* The body call.arg names the pool: it has a non-empty name.
NamedBody == Truthy(Get(call.arg, "name", None))
\* The partition the body asks for, "Common" when it asks for none.
AskedPartition ==
  Or3(Get(call.arg, "tmPartition", None), Get(call.arg, "partition", None), Common)
\* What Get on the identifier of the created pool's selfLink answered: the
\* record of the pool named call.arg.name in the partition asked for, with
\* the load balancing mode of the body or "round-robin" and the defaults.
GetReturnsCreated ==
  /\ last.status = 200
  /\ DOMAIN POOLS = {<<AskedPartition, call.arg.name>>}
  /\ last.body = POOLS[<<AskedPartition, call.arg.name>>]
  /\ last.body.name = call.arg.name
  /\ last.body.tmPartition = AskedPartition
  /\ last.body.loadBalancingMode =
       (IF "loadBalancingMode" \in DOMAIN call.arg THEN call.arg.loadBalancingMode
        ELSE IF "lb_method" \in DOMAIN call.arg THEN call.arg.lb_method
        ELSE <<"round-robin">>)
  /\ last.body.minUpMembers = Num0
  /\ last.body.minUpMembersAction = <<"failover">>
  /\ last.body.minUpMembersChecking = <<"disabled">>
  /\ last.body.monitor = <<"none">>

\* C16, as stated: a pool created with name N and partition P (default
\* Common) is returned by Get on the identifier ~P~N of its selfLink, with
\* loadBalancingMode "round-robin" unless the body supplied loadBalancingMode
\* or lb_method, minUpMembers 0, action "failover", checking "disabled" and
\* monitor "none".
C16_GetOnSelfLinkReturnsCreated ==
  (last.op = "get_pool" /\ call.fn = "create" /\ NamedBody) => GetReturnsCreated

\* C16, amended: the same for names and partitions that contain no "~".
C16_GetOnSelfLinkReturnsCreatedPlain ==
  (/\ last.op = "get_pool" /\ call.fn = "create" /\ NamedBody
   /\ ~contains(call.arg.name, "~") /\ ~contains(AskedPartition, "~"))
  => GetReturnsCreated

C16_Witness ==
  /\ last.op = "get_pool" /\ call.fn = "create"
  /\ call.arg = [name |-> PoolP, partition |-> PartX]
  /\ last.status = 200
  /\ last.body.selfLink = <<"/mgmt/tm/ltm/pool/", "~">> \o PartX \o <<"~">> \o PoolP
  /\ last.body.loadBalancingMode = <<"round-robin">>

\* C20: for every create body, create_pool and create_virtual either both
\* fail with 400 and store nothing, or both store their record under the same
\* (partition, name) key.
C20_SameKeyDerivation ==
  [][CreatePoolStep
     => LET virtual == create_virtual_h(call.arg)
        IN \/ /\ last'.status = 400 /\ UNCHANGED stores
              /\ virtual.status = 400 /\ virtual.virtuals = VIRTUALS
           \/ /\ last'.status = 201 /\ virtual.status = 201
              /\ DOMAIN POOLS' = DOMAIN virtual.virtuals]_vars

(***************************************************************************)
(* Properties of update_pool (PatchSpec).                                  *)
(***************************************************************************)
\* The record field a patch key is stored under, as the specification has it.
CanonicalField(k) ==
  CASE k = "lb_method" -> "loadBalancingMode"
    [] k = "min_up_members" -> "minUpMembers"
    [] k = "monitor_type" -> "monitor"
    [] OTHER -> k
CanonicalFields(items) == {CanonicalField(items[i][1]) : i \in 1..Len(items)}
\* The value the patch gives to field f: of two spellings of one field the
\* later in the body is the one written last.
PatchValue(items, f) ==
  LET at == {i \in 1..Len(items) : CanonicalField(items[i][1]) = f}
  IN items[CHOOSE i \in at : \A j \in at : j <= i][2]
UpdatePoolStep == last'.op = "update_pool" /\ call.fn = "update_pool"

\* C17: update_pool on an existing key sets every field the patch names to
\* the patch's value, lb_method, min_up_members and monitor_type stored under
\* loadBalancingMode, minUpMembers and monitor, and leaves every other field,
\* every other pool, the members and the virtual servers as they were;
\* update_pool on an absent key is answered 404 and creates no pool.
C17_UpdateMergesPatch ==
  [][UpdatePoolStep
     => LET key == parse_f5_id(call.arg.resource_id)
            items == call.arg.body_json
            named == CanonicalFields(items)
        IN IF key \in DOMAIN POOLS
           THEN /\ last'.status = 200
                /\ DOMAIN POOLS' = DOMAIN POOLS
                /\ last'.body = POOLS'[key]
                /\ DOMAIN POOLS'[key] = DOMAIN POOLS[key] \cup named
                /\ \A f \in named : POOLS'[key][f] = PatchValue(items, f)
                /\ \A f \in DOMAIN POOLS[key] \ named : POOLS'[key][f] = POOLS[key][f]
                /\ \A k \in DOMAIN POOLS \ {key} : POOLS'[k] = POOLS[k]
                /\ UNCHANGED <<POOL_MEMBERS, VIRTUALS>>
           ELSE /\ last'.status = 404 /\ last'.detail = "pool not found"
                /\ UNCHANGED stores]_vars

\* A patch of two fields, one of them under its other spelling, merged into
\* the pool of partition X beside the pool of the same name in Common.
C17_Witness ==
  /\ last.op = "update_pool" /\ last.status = 200
  /\ call.arg = [resource_id |-> TildeId(PartX, PoolP),
                 body_json |-> << <<"monitor_type", <<"http">> >>,
                                  <<"color", <<"red">> >> >>]
  /\ POOLS[<<PartX, PoolP>>].monitor = <<"http">>
  /\ POOLS[<<PartX, PoolP>>].color = <<"red">>
  /\ POOLS[<<PartX, PoolP>>].loadBalancingMode = <<"round-robin">>
  /\ <<Common, PoolP>> \in DOMAIN POOLS

(***************************************************************************)
(* Properties of the pool-member operations (MemberSpec).                  *)
(***************************************************************************)
MemberOps ==
  {"list_pool_members", "create_pool_member", "get_pool_member",
   "update_pool_member", "delete_pool_member"}
MemberStep(ops) == last'.op \in ops /\ call.fn = "member"
\* The pool key and the member name the request resolves to.
PoolKey == parse_f5_id(call.arg.resource_id)
MemberName == parse_f5_id(call.arg.member_id)[2]

\* C18: update_pool_member changes only the fields the patch names, each
\* under the name the patch gives it: the member's other fields, the pool's
\* other members, the other pools' members, POOLS and VIRTUALS are
\* unchanged; a refused update changes nothing.
C18_MemberUpdateMergesVerbatim ==
  [][MemberStep({"update_pool_member"})
     => IF last'.status = 200
        THEN LET old == POOL_MEMBERS[PoolKey][MemberName]
                 new == POOL_MEMBERS'[PoolKey][MemberName]
                 body_json == call.arg.body_json
             IN /\ last'.body = new
                /\ DOMAIN new = DOMAIN old \cup DOMAIN body_json
                /\ \A f \in DOMAIN body_json : new[f] = body_json[f]
                /\ \A f \in DOMAIN old \ DOMAIN body_json : new[f] = old[f]
                /\ DOMAIN POOL_MEMBERS' = DOMAIN POOL_MEMBERS
                /\ DOMAIN POOL_MEMBERS'[PoolKey] = DOMAIN POOL_MEMBERS[PoolKey]
                /\ \A m \in DOMAIN POOL_MEMBERS[PoolKey] \ {MemberName} :
                     POOL_MEMBERS'[PoolKey][m] = POOL_MEMBERS[PoolKey][m]
                /\ \A k \in DOMAIN POOL_MEMBERS \ {PoolKey} :
                     POOL_MEMBERS'[k] = POOL_MEMBERS[k]
                /\ UNCHANGED <<POOLS, VIRTUALS>>
        ELSE UNCHANGED stores]_vars

\* The member m of pool p patched under the names state and lb_method, its
\* ratio as created, beside the member n.
C18_Witness ==
  /\ last.op = "update_pool_member" /\ last.status = 200
  /\ call.arg.resource_id = PoolP
  /\ call.arg.body_json = [state |-> <<"user-down">>, lb_method |-> <<"ratio-member">>]
  /\ <<Common, PoolP>> \in DOMAIN POOL_MEMBERS
  /\ DOMAIN POOL_MEMBERS[<<Common, PoolP>>] = {MemberM, MemberN}
  /\ POOL_MEMBERS[<<Common, PoolP>>][MemberM].state = <<"user-down">>
  /\ POOL_MEMBERS[<<Common, PoolP>>][MemberM].lb_method = <<"ratio-member">>
  /\ POOL_MEMBERS[<<Common, PoolP>>][MemberM].ratio = Num1
  /\ POOL_MEMBERS[<<Common, PoolP>>][MemberN].state = <<"user-up">>

\* C19: each of the five pool-member operations on a pool key that is not in
\* POOLS is answered 404 "pool not found", whatever the member identifier and
\* the body, and changes no state.
C19_AbsentPoolIsPoolNotFound ==
  [][(MemberStep(MemberOps) /\ PoolKey \notin DOMAIN POOLS)
     => (last'.status = 404 /\ last'.detail = "pool not found"
         /\ UNCHANGED stores)]_vars

(***************************************************************************)
(* Properties of the gate's choice between token and basic credentials.    *)
(***************************************************************************)
\* What the token of the request decides, whatever else the request carries.
TokenOutcome(withBasic) ==
  LET a == last'.auth
  IN (Handled(ProtectedOps) /\ a.token # NoneS /\ (withBasic => a.hasBasic))
     => IF a.token \notin DOMAIN ACTIVE_TOKENS
        THEN /\ last'.status = 401 /\ last'.detail = "Invalid token"
             /\ UNCHANGED stores
        ELSE IF Expired(ACTIVE_TOKENS[a.token], now)
        THEN last'.status = 401 /\ last'.detail = "Token expired"
        ELSE last'.status # 401 /\ last'.user = ACTIVE_TOKENS[a.token].username

\* C21: when the request has a non-empty X-F5-Auth-Token header the token
\* alone decides the gate's outcome (unknown: 401 "Invalid token" even beside
\* the right basic credentials; issued and unexpired: passes even beside
\* wrong ones); basic credentials count only when there is no token header.
C21_TokenDecidesAlone == [][TokenOutcome(FALSE)]_vars

\* The same for the requests that carry an Authorization: Basic header, right
\* or wrong, beside the token.
TokenDecidesBesideBasicHeader == [][TokenOutcome(TRUE)]_vars

(***************************************************************************)
(* Properties of create on a key in use (UpsertSpec).                      *)
(***************************************************************************)
\* The key a body with a name asks for.
AskedKey(body_json) == <<Get(body_json, "partition", Common), body_json.name>>
\* The pool and the virtual server a body with a name describes: its values,
\* and the defaults for what it leaves out.
FreshPool(body_json) ==
  LET key == AskedKey(body_json)
  IN [name |-> key[2], tmPartition |-> key[1],
      description |-> Get(body_json, "description", <<>>),
      loadBalancingMode |-> Get(body_json, "lb_method", <<"round-robin">>),
      minUpMembers |-> Num0, minUpMembersAction |-> <<"failover">>,
      minUpMembersChecking |-> <<"disabled">>, monitor |-> <<"none">>,
      membersReference |->
        [link |-> <<"/mgmt/tm/ltm/pool/">> \o TildeId(key[1], key[2]) \o <<"/members">>],
      selfLink |-> <<"/mgmt/tm/ltm/pool/">> \o TildeId(key[1], key[2])]
FreshVirtual(body_json) ==
  LET key == AskedKey(body_json)
  IN [name |-> key[2], tmPartition |-> key[1],
      description |-> Get(body_json, "description", <<>>),
      destination |-> Get(body_json, "destination", None),
      pool |-> Get(body_json, "pool", None),
      enabled |-> BoolTrue, connectionLimit |-> Num0,
      selfLink |-> <<"/mgmt/tm/ltm/virtual/">> \o TildeId(key[1], key[2])]

\* C22: create_pool (create_virtual) on a key that holds a pool (a virtual
\* server) is answered 201, and the record stored under the key afterwards is
\* the one the new body and the defaults describe, with nothing of the record
\* it replaced.
C22_CreateReplacesRecord ==
  [][/\ last'.op = "create_pool"
        => \A b \in UpsertBodies :
             (create_pool(GoodBasic(NoneS), b) /\ AskedKey(b) \in DOMAIN POOLS)
             => /\ last'.status = 201
                /\ POOLS' = With(POOLS, AskedKey(b), FreshPool(b))
                /\ last'.body = FreshPool(b)
     /\ last'.op = "create_virtual"
        => \A b \in UpsertBodies :
             (create_virtual(GoodBasic(NoneS), b) /\ AskedKey(b) \in DOMAIN VIRTUALS)
             => /\ last'.status = 201
                /\ VIRTUALS' = With(VIRTUALS, AskedKey(b), FreshVirtual(b))
                /\ last'.body = FreshVirtual(b)]_vars

\* The pool p of Common, which has a member and so was there before, has
\* just been created again from a body with the name alone.
C22_Witness ==
  /\ last.op = "create_pool" /\ last.status = 201
  /\ last.body = FreshPool([name |-> PoolP])
  /\ <<Common, PoolP>> \in DOMAIN POOL_MEMBERS
  /\ POOL_MEMBERS[<<Common, PoolP>>] # EmptyDict

(***************************************************************************)
(* Properties of create_pool_member (MemberCreateSpec).                    *)
(***************************************************************************)
\* The name the specification gives the member of a body in pool poolname.
DerivedMemberName(body_json, poolname) ==
  IF Truthy(Get(body_json, "name", None)) THEN body_json.name
  ELSE IF Truthy(Get(body_json, "address", None)) THEN body_json.address
  ELSE poolname \o <<":">>
       \o (IF "port" \in DOMAIN body_json THEN Str(body_json.port) ELSE <<"0">>)
\* The member record of a body: its values, and the defaults.
FreshMember(body_json, partition, poolname) ==
  LET m == DerivedMemberName(body_json, poolname)
  IN [name |-> m,
      address |-> Get(body_json, "address", None),
      port |-> Get(body_json, "port", None),
      description |-> <<>>,
      session |-> <<"user-enabled">>,
      ratio |-> Num1,
      state |-> Get(body_json, "state", <<"user-up">>),
      selfLink |-> <<"/mgmt/tm/ltm/pool/">> \o TildeId(partition, poolname)
                   \o <<"/members/">> \o TildeId(partition, m)]

AddressedByGet ==
  LET got == get_pool_member_h(PoolP, call.arg)
      members == MembersOf(<<Common, PoolP>>)
  IN IF got.status = 200 THEN {m \in DOMAIN members : members[m] = got.body}
     ELSE {}

\* C24: update_pool_member and delete_pool_member with an identifier succeed
\* exactly when get_pool_member with it does, and on the member it returns:
\* Update answers that member patched, Delete removes that member and no
\* other; each answers 404 only when Get would.
C24_SameMemberAddressed ==
  [][(last'.op \in {"update_pool_member", "delete_pool_member"}
      /\ call.fn = "member_id")
     => /\ (last'.status = 200) <=> (AddressedByGet # {})
        /\ (last'.status # 200) => (last'.status = 404 /\ UNCHANGED stores)
        /\ (last'.status = 200 /\ last'.op = "update_pool_member")
           => \E m \in AddressedByGet :
                /\ last'.body.selfLink = POOL_MEMBERS[<<Common, PoolP>>][m].selfLink
                /\ DOMAIN POOL_MEMBERS'[<<Common, PoolP>>]
                     = DOMAIN POOL_MEMBERS[<<Common, PoolP>>]
        /\ (last'.status = 200 /\ last'.op = "delete_pool_member")
           => \E m \in AddressedByGet :
                POOL_MEMBERS'[<<Common, PoolP>>]
                  = Without(POOL_MEMBERS[<<Common, PoolP>>], m)]_vars

(***************************************************************************)
(* Properties of the stores side by side (UpsertSpec).                     *)
(***************************************************************************)
PoolOps == {"list_pools", "create_pool", "get_pool", "update_pool", "delete_pool"}
VirtualOps ==
  {"list_virtuals", "create_virtual", "get_virtual", "update_virtual",
   "delete_virtual"}

\* C25: create_virtual is answered 201 whether the pool its body refers to
\* exists or not and whether a pool holds its key or not; no pool or member
\* operation, delete_pool of a referenced pool included, changes VIRTUALS;
\* no virtual-server operation changes POOLS or POOL_MEMBERS.
C25_PoolsAndVirtualsIndependent ==
  [][/\ last'.op = "create_virtual"
        => \A b \in UpsertBodies :
             create_virtual(GoodBasic(NoneS), b)
             => /\ last'.status = 201
                /\ AskedKey(b) \in DOMAIN VIRTUALS'
                /\ VIRTUALS'[AskedKey(b)].pool = Get(b, "pool", None)
     /\ last'.op \in PoolOps \cup MemberOps => VIRTUALS' = VIRTUALS
     /\ last'.op \in VirtualOps => UNCHANGED <<POOLS, POOL_MEMBERS>>]_vars

\* The pool p of Common has just been deleted; the virtual server of
\* partition X that refers to it is still there, at the key of the pool p of
\* partition X.
C25_Witness ==
  /\ last.op = "delete_pool" /\ last.status = 200
  /\ <<Common, PoolP>> \notin DOMAIN POOLS
  /\ <<PartX, PoolP>> \in DOMAIN POOLS
  /\ <<PartX, PoolP>> \in DOMAIN VIRTUALS
  /\ VIRTUALS[<<PartX, PoolP>>].pool = PoolP

\* A store is at every key but K as it was.
OthersKept(before, after, K) ==
  \A k \in (DOMAIN before \cup DOMAIN after) \ {K} :
    k \in DOMAIN before /\ k \in DOMAIN after /\ after[k] = before[k]

\* C26: create, update and delete of a pool (a virtual server) at a key leave
\* the pools (the virtual servers) at every other key as they were, the pool
\* of the same name in another partition among them; create, update and
\* delete of a member of a pool, and the pool operations themselves, leave
\* the member collections of every other pool as they were, members of the
\* same name among them.
C26_OtherKeysUnchanged ==
  [][LET ok == GoodBasic(NoneS)
     IN /\ last'.op = "create_pool"
           => \A b \in UpsertBodies :
                create_pool(ok, b)
                => /\ OthersKept(POOLS, POOLS', AskedKey(b))
                   /\ OthersKept(POOL_MEMBERS, POOL_MEMBERS', AskedKey(b))
        /\ last'.op = "create_virtual"
           => \A b \in UpsertBodies :
                create_virtual(ok, b) => OthersKept(VIRTUALS, VIRTUALS', AskedKey(b))
        /\ last'.op \in {"update_pool", "delete_pool"}
           => \A r \in PoolIds :
                (update_pool(ok, r, UpsertPoolPatch) \/ delete_pool(ok, r))
                => /\ OthersKept(POOLS, POOLS', parse_f5_id(r))
                   /\ OthersKept(POOL_MEMBERS, POOL_MEMBERS', parse_f5_id(r))
        /\ last'.op \in {"update_virtual", "delete_virtual"}
           => \A r \in PoolIds :
                (update_virtual(ok, r, UpsertVirtualPatch) \/ delete_virtual(ok, r))
                => OthersKept(VIRTUALS, VIRTUALS', parse_f5_id(r))
        /\ last'.op \in {"create_pool_member", "update_pool_member",
                          "delete_pool_member"}
           => \A r \in UpsertPoolIds :
                (\/ create_pool_member(ok, r, [name |-> MemberM])
                 \/ update_pool_member(ok, r, MemberM, [state |-> <<"user-down">>])
                 \/ delete_pool_member(ok, r, MemberM))
                => /\ OthersKept(POOL_MEMBERS, POOL_MEMBERS', parse_f5_id(r))
                   /\ POOLS' = POOLS]_vars

\* The pool p of Common has just been deleted; the pool p of partition X and
\* its patched member m, of the name of a member the deleted pool had, are
\* there.
C26_Witness ==
  /\ last.op = "delete_pool" /\ last.status = 200
  /\ DOMAIN POOLS = {<<PartX, PoolP>>}
  /\ DOMAIN POOL_MEMBERS = {<<PartX, PoolP>>}
  /\ MemberM \in DOMAIN POOL_MEMBERS[<<PartX, PoolP>>]
  /\ POOL_MEMBERS[<<PartX, PoolP>>][MemberM].state = <<"user-down">>
  /\ "color" \in DOMAIN POOLS[<<PartX, PoolP>>]

(***************************************************************************)
(* Invariants of the stores (Spec).                                        *)
(***************************************************************************)
\* C27: in every reachable state the keys of POOL_MEMBERS are the keys of
\* POOLS: no member collection without its pool, no pool without a member
\* collection.
C27_MemberKeysArePoolKeys == DOMAIN POOL_MEMBERS = DOMAIN POOLS

\* One of two pools that had members has just been deleted; the other and its
\* members are there.
C27_Witness ==
  /\ last.op = "delete_pool" /\ last.status = 200
  /\ DOMAIN POOLS = {<<PartX, PoolP>>}
  /\ DOMAIN POOL_MEMBERS = {<<PartX, PoolP>>}
  /\ DOMAIN POOL_MEMBERS[<<PartX, PoolP>>] = {MemberM}

\* C28: in every reachable state a pool or virtual server stored at key
\* (P, N) has tmPartition P and name N, and a member stored under the name M
\* has name M.
C28_RecordsAgreeWithKeys ==
  /\ \A k \in DOMAIN POOLS : POOLS[k].tmPartition = k[1] /\ POOLS[k].name = k[2]
  /\ \A k \in DOMAIN VIRTUALS :
       VIRTUALS[k].tmPartition = k[1] /\ VIRTUALS[k].name = k[2]
  /\ \A k \in DOMAIN POOL_MEMBERS :
       \A m \in DOMAIN POOL_MEMBERS[k] : POOL_MEMBERS[k][m].name = m

(***************************************************************************)
(* Properties of the token records (AuthSpec).                             *)
(***************************************************************************)
\* C29: a token record is as it was created for as long as it is stored: no
\* step changes its owner, creation or expiration; a request that passes the
\* gate by a token and a successful get_token_info leave ACTIVE_TOKENS as it
\* was; a successful login adds one record, under a value that had none, and
\* nothing else adds one.
C29_TokenRecordsImmutable ==
  [][/\ \A t \in DOMAIN ACTIVE_TOKENS \cap DOMAIN ACTIVE_TOKENS' :
          ACTIVE_TOKENS'[t] = ACTIVE_TOKENS[t]
     /\ (Handled(ProtectedOps) /\ last'.auth.token # NoneS /\ last'.status # 401)
        => UNCHANGED ACTIVE_TOKENS
     /\ (now' = now /\ last'.op = "get_token_info" /\ last'.status = 200)
        => UNCHANGED ACTIVE_TOKENS
     /\ (uuidDrawn' # uuidDrawn)
        => /\ last'.op = "login" /\ last'.status = 200
           /\ last'.body.token \notin DOMAIN ACTIVE_TOKENS
           /\ DOMAIN ACTIVE_TOKENS' = DOMAIN ACTIVE_TOKENS \cup {last'.body.token}
           /\ ACTIVE_TOKENS'[last'.body.token].username = last'.body.userName
     /\ DOMAIN ACTIVE_TOKENS' \ DOMAIN ACTIVE_TOKENS # {} => uuidDrawn' # uuidDrawn]_vars

\* A token issued by the first login has been used at the gate after the
\* clock moved and after a second login, and is stored as it was issued.
C29_Witness ==
  /\ last.op = "get_sys_info" /\ last.status = 200 /\ last.auth.token = uuid4(1)
  /\ now > 0
  /\ DOMAIN ACTIVE_TOKENS = {uuid4(1), uuid4(2)}
  /\ ACTIVE_TOKENS[uuid4(1)].created = 0
  /\ ACTIVE_TOKENS[uuid4(1)].expiration = TokenLifetime

==============================================================================
